---- MODULE Spec2Model ----
(***************************************************************************)
(* Model of the CiteFlex citation pipeline.                                *)
(*                                                                         *)
(* Part 1: the citation history state machine of                           *)
(* document_processor.process_document: one CitationHistory per run, one   *)
(* process_single_note step per note, endnotes before footnotes.           *)
(*                                                                         *)
(* Python strings are sequences of one-character strings, so that the      *)
(* conversions (strip, lower, rstrip('/'), split('?'), the ibid regular    *)
(* expression) are computed and not assumed.  None and the empty string    *)
(* are both the empty sequence wherever the code only tests truthiness.    *)
(***************************************************************************)
EXTENDS Integers, Sequences, FiniteSets, TLC

\* ------------------------------------------------------------------------
\* Bounds
\* ------------------------------------------------------------------------
MaxNotes == 4
MaxEndnotes == 1
MaxWideNotes == 2
MaxScenarioNotes == 5
MaxFailureNotes == 4
MaxPartNotes == 2
MaxNoteId == 2
MaxDelay == 13
MaxGateNotes == 2

\* ------------------------------------------------------------------------
\* String helpers (str.lower, str.strip, str.rstrip, str.split, startswith)
\* ------------------------------------------------------------------------
EmptyStr == <<>>

UpperToLower ==
    [c \in {"A","B","C","D","E","F","G","H","I","J","K","L","M","N","O","P",
            "Q","R","S","T","U","V","W","X","Y","Z"} |->
        CASE c = "A" -> "a" [] c = "B" -> "b" [] c = "C" -> "c" [] c = "D" -> "d"
          [] c = "E" -> "e" [] c = "F" -> "f" [] c = "G" -> "g" [] c = "H" -> "h"
          [] c = "I" -> "i" [] c = "J" -> "j" [] c = "K" -> "k" [] c = "L" -> "l"
          [] c = "M" -> "m" [] c = "N" -> "n" [] c = "O" -> "o" [] c = "P" -> "p"
          [] c = "Q" -> "q" [] c = "R" -> "r" [] c = "S" -> "s" [] c = "T" -> "t"
          [] c = "U" -> "u" [] c = "V" -> "v" [] c = "W" -> "w" [] c = "X" -> "x"
          [] c = "Y" -> "y" [] c = "Z" -> "z"]

LowerChar(c) == IF c \in DOMAIN UpperToLower THEN UpperToLower[c] ELSE c

Lower(s) == [i \in 1..Len(s) |-> LowerChar(s[i])]

IsSpace(c) == c \in {" ", "\t", "\n"}

IsDigit(c) == c \in {"0","1","2","3","4","5","6","7","8","9"}

\* "ndash" stands for the one character U+2013 of the pattern's [\-–] class.
IsDash(c) == c \in {"-", "ndash"}

\* index of the first / last character that is not white space (0 if none)
FirstNonSpace(s) ==
    IF \E i \in 1..Len(s) : ~IsSpace(s[i])
    THEN CHOOSE i \in 1..Len(s) : ~IsSpace(s[i]) /\ \A j \in 1..(i-1) : IsSpace(s[j])
    ELSE 0

LastNonSpace(s) ==
    IF \E i \in 1..Len(s) : ~IsSpace(s[i])
    THEN CHOOSE i \in 1..Len(s) : ~IsSpace(s[i]) /\ \A j \in (i+1)..Len(s) : IsSpace(s[j])
    ELSE 0

Strip(s) ==
    IF FirstNonSpace(s) = 0 THEN EmptyStr
    ELSE SubSeq(s, FirstNonSpace(s), LastNonSpace(s))

\* str.rstrip('/')
RStripSlash(s) ==
    IF \E i \in 1..Len(s) : s[i] # "/"
    THEN SubSeq(s, 1, CHOOSE i \in 1..Len(s) :
                         s[i] # "/" /\ \A j \in (i+1)..Len(s) : s[j] = "/")
    ELSE EmptyStr

\* s.split('?')[0]
BeforeQuery(s) ==
    IF \E i \in 1..Len(s) : s[i] = "?"
    THEN SubSeq(s, 1, (CHOOSE i \in 1..Len(s) :
                         s[i] = "?" /\ \A j \in 1..(i-1) : s[j] # "?") - 1)
    ELSE s

StartsWith(s, p) ==
    /\ Len(p) <= Len(s)
    /\ \A i \in 1..Len(p) : s[i] = p[i]

\* ------------------------------------------------------------------------
\* IBID_PATTERN, is_ibid, extract_ibid_page
\*   ^(?:ibid\.?|ibidem\.?|id\.?)
\*    (?:\s*(?:at\s+|[,.]?\s*)?(?:pp?\.?\s*)?(\d+[\-–]?\d*)?)?\.?$   (IGNORECASE)
\* A set of positions is the set of indices of the next unread character
\* that some way of matching the pattern so far can have reached.
\* ------------------------------------------------------------------------
\* a literal, compared case-insensitively (w is written in lower case)
ReLit(s, S, w) ==
    { p + Len(w) : p \in { q \in S : /\ q + Len(w) - 1 <= Len(s)
                                     /\ \A i \in 1..Len(w) : LowerChar(s[q + i - 1]) = w[i] } }

\* one optional character out of the set C
ReOptChar(s, S, C) ==
    S \cup { p + 1 : p \in { q \in S : q <= Len(s) /\ s[q] \in C } }

\* \s*
ReSpaces0(s, S) ==
    { q \in 1..(Len(s) + 1) : \E p \in S : p <= q /\ \A i \in p..(q-1) : IsSpace(s[i]) }

\* \s+
ReSpaces1(s, S) ==
    { q \in 1..(Len(s) + 1) : \E p \in S : p < q /\ \A i \in p..(q-1) : IsSpace(s[i]) }

\* \d*
ReDigits0(s, S) ==
    { q \in 1..(Len(s) + 1) : \E p \in S : p <= q /\ \A i \in p..(q-1) : IsDigit(s[i]) }

\* \d+
ReDigits1(s, S) ==
    { q \in 1..(Len(s) + 1) : \E p \in S : p < q /\ \A i \in p..(q-1) : IsDigit(s[i]) }

\* (?:ibid\.?|ibidem\.?|id\.?)
ReHead(s) ==
    ReOptChar(s,
              ReLit(s, {1}, <<"i","b","i","d">>)
                \cup ReLit(s, {1}, <<"i","b","i","d","e","m">>)
                \cup ReLit(s, {1}, <<"i","d">>),
              {"."})

\* \s*(?:at\s+|[,.]?\s*)?
ReSeparator(s, S) ==
    LET A == ReSpaces0(s, S)
    IN  A \cup ReSpaces1(s, ReLit(s, A, <<"a","t">>))
          \cup ReSpaces0(s, ReOptChar(s, A, {",", "."}))

\* (?:pp?\.?\s*)?
RePagePrefix(s, S) ==
    S \cup ReSpaces0(s, ReOptChar(s,
                          ReLit(s, S, <<"p">>) \cup ReLit(s, S, <<"p","p">>),
                          {"."}))

\* positions where group 1 may start
ReGroupStarts(s) == RePagePrefix(s, ReSeparator(s, ReHead(s)))

\* \d+[\-–]?\d*  started at g
ReGroupEnds(s, g) ==
    LET D == ReDigits1(s, {g})
    IN  ReDigits0(s, D \cup { p + 1 : p \in { q \in D : q <= Len(s) /\ IsDash(s[q]) } })

\* \.?$
ReAtEnd(s, p) == p = Len(s) + 1 \/ (p = Len(s) /\ s[p] = ".")

\* the matches that capture group 1, as <<start, end>> positions
ReCaptures(s) ==
    { c \in ReGroupStarts(s) \X (1..(Len(s) + 1)) :
        c[2] \in ReGroupEnds(s, c[1]) /\ ReAtEnd(s, c[2]) }

\* IBID_PATTERN.match(s) is not None
IBID_PATTERN(s) ==
    \/ ReCaptures(s) # {}
    \/ \E p \in ReHead(s) \cup ReGroupStarts(s) : ReAtEnd(s, p)

is_ibid(text) ==
    IF text = EmptyStr THEN FALSE ELSE IBID_PATTERN(Strip(text))

\* match.group(1); the empty sequence stands for None
extract_ibid_page(text) ==
    IF text = EmptyStr THEN EmptyStr
    ELSE LET cleaned == Strip(text)
         IN  IF ReCaptures(cleaned) # {}
             THEN LET c == CHOOSE c \in ReCaptures(cleaned) : TRUE
                  IN  Strip(SubSeq(cleaned, c[1], c[2] - 1))
             ELSE EmptyStr

\* slip: the period after the page is left out
format_ibid_no_final_period(page) ==
    IF page # EmptyStr
    THEN <<"I","b","i","d",".",","," ">> \o page
    ELSE <<"I","b","i","d",".">>

\* BaseFormatter.format_ibid
format_ibid(page) ==
    IF page # EmptyStr
    THEN <<"I","b","i","d",".",","," ">> \o page \o <<".">>
    ELSE <<"I","b","i","d",".">>

\* ------------------------------------------------------------------------
\* normalize_url, urls_match
\* ------------------------------------------------------------------------
normalize_url(url) ==
    IF url = EmptyStr THEN EmptyStr
    ELSE BeforeQuery(RStripSlash(Lower(Strip(url))))

\* slip: the URLs are compared as written
urls_match_exact(url1, url2) ==
    IF url1 = EmptyStr \/ url2 = EmptyStr THEN FALSE
    ELSE url1 = url2

urls_match(url1, url2) ==
    IF url1 = EmptyStr \/ url2 = EmptyStr THEN FALSE
    ELSE normalize_url(url1) = normalize_url(url2)

\* ------------------------------------------------------------------------
\* models.normalize_doi: lower case, surrounding white space and the
\* resolver prefix removed
\* ------------------------------------------------------------------------
DoiPrefixes ==
    { <<"h","t","t","p","s",":","/","/","d","o","i",".","o","r","g","/">>,
      <<"h","t","t","p",":","/","/","d","o","i",".","o","r","g","/">>,
      <<"d","o","i",":">> }

normalize_doi(doi) ==
    LET d == Lower(Strip(doi))
    IN  IF \E p \in DoiPrefixes : StartsWith(d, p)
        THEN LET p == CHOOSE p \in DoiPrefixes : StartsWith(d, p)
             IN  Strip(SubSeq(d, Len(p) + 1, Len(d)))
        ELSE d

\* ------------------------------------------------------------------------
\* CitationMetadata (the identifying fields), generate_source_key,
\* sources_match.  NoMeta is None; a key of None is the empty sequence
\* (every key the code builds starts with a non-empty tag).
\* ------------------------------------------------------------------------
NoMeta == [none |-> TRUE]

Meta(doi, url, case_name, citation, title, authors) ==
    [doi |-> doi, url |-> url, case_name |-> case_name, citation |-> citation,
     title |-> title, authors |-> authors]

NoKey == EmptyStr

\* slip: the URL is looked at before the DOI
generate_source_key_url_first(metadata) ==
    IF metadata # NoMeta /\ metadata.url # EmptyStr
    THEN <<"u","r","l",":">> \o normalize_url(metadata.url)
    ELSE IF metadata # NoMeta /\ metadata.doi # EmptyStr
              /\ normalize_doi(metadata.doi) # EmptyStr
    THEN <<"d","o","i",":">> \o normalize_doi(metadata.doi)
    ELSE NoKey

generate_source_key(metadata) ==
    IF metadata = NoMeta THEN NoKey
    ELSE IF metadata.doi # EmptyStr /\ normalize_doi(metadata.doi) # EmptyStr
    THEN <<"d","o","i",":">> \o normalize_doi(metadata.doi)
    ELSE IF metadata.url # EmptyStr
    THEN <<"u","r","l",":">> \o normalize_url(metadata.url)
    ELSE IF metadata.case_name # EmptyStr /\ metadata.citation # EmptyStr
    THEN <<"l","e","g","a","l",":">> \o Strip(Lower(metadata.case_name))
           \o <<"|">> \o Strip(Lower(metadata.citation))
    ELSE IF metadata.title # EmptyStr
    THEN <<"t","i","t","l","e",":">> \o Strip(Lower(metadata.title))
           \o (IF Len(metadata.authors) > 0
               THEN <<"|","a","u","t","h","o","r",":">> \o Strip(Lower(metadata.authors[1]))
               ELSE EmptyStr)
    ELSE IF metadata.case_name # EmptyStr
    THEN <<"c","a","s","e",":">> \o Strip(Lower(metadata.case_name))
    ELSE NoKey

\* slip: the None check is left out
sources_match_without_none_check(metadata1, metadata2) ==
    generate_source_key(metadata1) = generate_source_key(metadata2)

sources_match(metadata1, metadata2) ==
    LET key1 == generate_source_key(metadata1)
        key2 == generate_source_key(metadata2)
    IN  IF key1 = NoKey \/ key2 = NoKey THEN FALSE ELSE key1 = key2

\* ------------------------------------------------------------------------
\* CitationHistory: a record of the object's fields.  all_sources is the
\* dict source_key -> first occurrence, as a set of [key, entry] pairs.
\* ------------------------------------------------------------------------
NoEntry == [none |-> TRUE]

CitationHistory == [previous |-> NoEntry, all_sources |-> {}, note_counter |-> 0]

SourceKeys(h) == { e.key : e \in h.all_sources }

\* slip: all_sources[source_key] is set on every add
HistoryAdd_overwrites(h, metadata, formatted) ==
    LET source_key == generate_source_key(metadata)
        entry == [metadata |-> metadata, formatted |-> formatted,
                  source_key |-> source_key, note_number |-> h.note_counter + 1]
    IN  [previous |-> entry,
         all_sources |->
            IF source_key # NoKey
            THEN { e \in h.all_sources : e.key # source_key }
                   \cup {[key |-> source_key, entry |-> entry]}
            ELSE h.all_sources,
         note_counter |-> h.note_counter + 1]

HistoryAdd(h, metadata, formatted) ==
    LET source_key == generate_source_key(metadata)
        entry == [metadata |-> metadata, formatted |-> formatted,
                  source_key |-> source_key, note_number |-> h.note_counter + 1]
    IN  [previous |-> entry,
         all_sources |->
            IF source_key # NoKey /\ source_key \notin SourceKeys(h)
            THEN h.all_sources \cup {[key |-> source_key, entry |-> entry]}
            ELSE h.all_sources,
         note_counter |-> h.note_counter + 1]

\* slip: the records are compared, not their source keys
is_same_as_previous_by_record(h, metadata) ==
    IF h.previous = NoEntry THEN FALSE
    ELSE metadata = h.previous.metadata

is_same_as_previous(h, metadata) ==
    IF h.previous = NoEntry THEN FALSE
    ELSE sources_match(metadata, h.previous.metadata)

\* slip: the record, not its key, is looked up in the dict of keys
has_been_cited_before_by_record(h, metadata) == FALSE

has_been_cited_before(h, metadata) ==
    LET source_key == generate_source_key(metadata)
    IN  IF source_key = NoKey THEN FALSE ELSE source_key \in SourceKeys(h)

get_previous_metadata(h) ==
    IF h.previous # NoEntry THEN h.previous.metadata ELSE NoMeta

get_previous_url(h) ==
    IF h.previous # NoEntry /\ h.previous.metadata # NoMeta
    THEN h.previous.metadata.url
    ELSE EmptyStr

\* ------------------------------------------------------------------------
\* ProcessedCitation, and the formatter's short form (an opaque pure
\* function of the metadata: here the tag "short" before the source key)
\* ------------------------------------------------------------------------
ProcessedCitation(original, formatted, metadata, url, success, error, citation_form) ==
    [original |-> original, formatted |-> formatted, metadata |-> metadata,
     url |-> url, success |-> success, error |-> error,
     citation_form |-> citation_form]

NoError == "None"

format_short(metadata) == <<"s","h","o","r","t"," ">> \o generate_source_key(metadata)

\* ------------------------------------------------------------------------
\* What unified_router.get_citation hands back for one note: a pair
\* (metadata, formatted), (None, "") when nothing was found, or an exception.
\* ------------------------------------------------------------------------
Found(metadata, formatted) == [metadata |-> metadata, formatted |-> formatted, raised |-> FALSE]
NotFound == [metadata |-> NoMeta, formatted |-> EmptyStr, raised |-> FALSE]
Raised == [metadata |-> NoMeta, formatted |-> EmptyStr, raised |-> TRUE]
NotCalled == [called |-> FALSE]

\* ------------------------------------------------------------------------
\* process_document.process_single_note: the ProcessedCitation returned,
\* the history afterwards, and the text written to the note (wrote = FALSE
\* when no write_endnote / write_footnote call is made).
\* ------------------------------------------------------------------------
Outcome(result, h, wrote) == [result |-> result, history |-> h, wrote |-> wrote]

\* slip: an ibid is written without looking for a previous citation
ExplicitIbidOutcome_unchecked(h, original_text) ==
    Outcome(ProcessedCitation(original_text,
               format_ibid(extract_ibid_page(original_text)),
               get_previous_metadata(h), get_previous_url(h), TRUE, NoError, "ibid"),
            h, TRUE)

\* slip: the ibid note is recorded in the history without a record
ExplicitIbidOutcome_recorded_bare(h, original_text) ==
    LET previous_metadata == get_previous_metadata(h)
        formatted == format_ibid(extract_ibid_page(original_text))
    IN  IF previous_metadata = NoMeta
        THEN Outcome(ProcessedCitation(original_text, original_text, NoMeta, EmptyStr,
                        FALSE, "ibid reference but no previous citation found", "ibid"),
                     h, FALSE)
        ELSE Outcome(ProcessedCitation(original_text, formatted,
                        previous_metadata, get_previous_url(h), TRUE, NoError, "ibid"),
                     [previous |-> [metadata |-> NoMeta, formatted |-> formatted,
                                    source_key |-> NoKey,
                                    note_number |-> h.note_counter + 1],
                      all_sources |-> h.all_sources,
                      note_counter |-> h.note_counter + 1],
                     TRUE)

\* Case 1: explicit ibid reference
ExplicitIbidOutcome(h, original_text) ==
    LET previous_metadata == get_previous_metadata(h)
    IN  IF previous_metadata = NoMeta
        THEN Outcome(ProcessedCitation(original_text, original_text, NoMeta, EmptyStr,
                        FALSE, "ibid reference but no previous citation found", "ibid"),
                     h, FALSE)
        ELSE Outcome(ProcessedCitation(original_text,
                        format_ibid(extract_ibid_page(original_text)),
                        previous_metadata, get_previous_url(h), TRUE, NoError, "ibid"),
                     h, TRUE)

\* slip: the failed note takes the place of the previous citation
ExceptionOutcome_clears_previous(h, original_text) ==
    Outcome(ProcessedCitation(original_text, original_text, NoMeta, EmptyStr,
               FALSE, "exception", "full"),
            [h EXCEPT !.previous = NoEntry], FALSE)

\* except Exception
ExceptionOutcome(h, original_text) ==
    Outcome(ProcessedCitation(original_text, original_text, NoMeta, EmptyStr,
               FALSE, "exception", "full"), h, FALSE)

\* slip: the result carries what the lookup gave, not the note's own text
NotFoundOutcome_keeps_lookup(h, original_text) ==
    Outcome(ProcessedCitation(original_text, EmptyStr, NoMeta, EmptyStr,
               FALSE, "No metadata found", "full"), h, FALSE)

\* not metadata or not full_formatted
NotFoundOutcome(h, original_text) ==
    Outcome(ProcessedCitation(original_text, original_text, NoMeta, EmptyStr,
               FALSE, "No metadata found", "full"), h, FALSE)

\* current_url: the record's url, else the note itself when it is a bare link
CurrentUrl(original_text, metadata) ==
    IF metadata.url = EmptyStr /\ StartsWith(Strip(original_text), <<"h","t","t","p">>)
    THEN Strip(original_text)
    ELSE metadata.url

\* slip: the note is added to the history like a full citation
UrlIbidOutcome_adds(h, original_text, metadata, current_url) ==
    Outcome(ProcessedCitation(original_text, format_ibid(EmptyStr),
               get_previous_metadata(h), current_url, TRUE, NoError, "ibid"),
            HistoryAdd(h, metadata, format_ibid(EmptyStr)), TRUE)

\* Case 2: same URL as previous
UrlIbidOutcome(h, original_text, metadata, current_url) ==
    Outcome(ProcessedCitation(original_text, format_ibid(EmptyStr),
               get_previous_metadata(h), current_url, TRUE, NoError, "ibid"),
            h, TRUE)

\* slip: the ibid is returned without the write_endnote / write_footnote call
SourceIbidOutcome_unwritten(h, original_text, metadata, current_url) ==
    Outcome(ProcessedCitation(original_text, format_ibid(EmptyStr),
               metadata, current_url, TRUE, NoError, "ibid"),
            h, FALSE)

\* Case 3: same source as previous
SourceIbidOutcome(h, original_text, metadata, current_url) ==
    Outcome(ProcessedCitation(original_text, format_ibid(EmptyStr),
               metadata, current_url, TRUE, NoError, "ibid"),
            h, TRUE)

\* slip: a source cited before is given in full again
ShortOutcome_in_full(h, original_text, metadata, current_url) ==
    Outcome(ProcessedCitation(original_text, format_short(metadata),
               metadata, current_url, TRUE, NoError, "full"),
            HistoryAdd(h, metadata, format_short(metadata)), TRUE)

\* Case 4: previously cited
ShortOutcome(h, original_text, metadata, current_url) ==
    Outcome(ProcessedCitation(original_text, format_short(metadata),
               metadata, current_url, TRUE, NoError, "short"),
            HistoryAdd(h, metadata, format_short(metadata)), TRUE)

\* Case 5: new source
FullOutcome(h, original_text, metadata, full_formatted, current_url) ==
    Outcome(ProcessedCitation(original_text, full_formatted,
               metadata, current_url, TRUE, NoError, "full"),
            HistoryAdd(h, metadata, full_formatted), TRUE)

NoteOutcome(h, original_text, res) ==
    IF is_ibid(original_text) THEN ExplicitIbidOutcome(h, original_text)
    ELSE IF res.raised THEN ExceptionOutcome(h, original_text)
    ELSE IF res.metadata = NoMeta \/ res.formatted = EmptyStr
    THEN NotFoundOutcome(h, original_text)
    ELSE
      LET metadata == res.metadata
          current_url == CurrentUrl(original_text, metadata)
          previous_url == get_previous_url(h)
      IN  IF current_url # EmptyStr /\ previous_url # EmptyStr
             /\ urls_match(current_url, previous_url)
          THEN UrlIbidOutcome(h, original_text, metadata, current_url)
          ELSE IF is_same_as_previous(h, metadata)
          THEN SourceIbidOutcome(h, original_text, metadata, current_url)
          ELSE IF has_been_cited_before(h, metadata)
          THEN ShortOutcome(h, original_text, metadata, current_url)
          ELSE FullOutcome(h, original_text, metadata, res.formatted, current_url)

\* ------------------------------------------------------------------------
\* State of one process_document run
\* ------------------------------------------------------------------------
VARIABLES
    history,      \* the run's CitationHistory
    results,      \* the list of ProcessedCitation built so far
    lookups,      \* what get_citation returned for each note (NotCalled for an explicit ibid)
    written,      \* the write_endnote / write_footnote calls made: [note_type, note_id, text]
    phase,        \* which loop of process_document is running
    n_endnotes,   \* number of endnotes the first loop went through
    visited,      \* the process_single_note calls made: [note_type, note_id]
    doc,          \* the notes parts of the document, when the run reads them (else NoDoc)
    race,         \* one call of an engine router function (NoRace while none is modelled)
    route,        \* one call of a routing function with its lookups (NoRoute while none is modelled)
    call,         \* one call of a function of the program: its arguments, then its value
    session       \* a session of the web application and the /api/update requests on it

runVars == <<history, results, lookups, written, phase, n_endnotes, visited, doc>>

vars == <<history, results, lookups, written, phase, n_endnotes, visited, doc, race, route, call, session>>

\* the notes are drawn as the loops reach them
NoDoc == [none |-> TRUE]

NoRace == [none |-> TRUE]

NoRoute == [none |-> TRUE]

NoCall == [none |-> TRUE]

NoSession == [none |-> TRUE]

InitRun ==
    /\ history = CitationHistory
    /\ results = <<>>
    /\ lookups = <<>>
    /\ written = <<>>
    /\ phase = "endnotes"
    /\ n_endnotes = 0
    /\ visited = <<>>

Init ==
    /\ InitRun
    /\ doc = NoDoc
    /\ race = NoRace
    /\ route = NoRoute
    /\ call = NoCall
    /\ session = NoSession

process_single_note(note_id, original_text, note_type, res) ==
    LET out == NoteOutcome(history, original_text, res)
    IN  /\ history' = out.history
        /\ results' = Append(results, out.result)
        /\ lookups' = Append(lookups, IF is_ibid(original_text) THEN NotCalled ELSE res)
        /\ written' = IF out.wrote
                      THEN Append(written, [note_type |-> note_type, note_id |-> note_id,
                                            text |-> out.result.formatted])
                      ELSE written
        /\ visited' = Append(visited, [note_type |-> note_type, note_id |-> note_id])

\* ------------------------------------------------------------------------
\* The notes a document can hold and what their lookup gives
\* ------------------------------------------------------------------------
TxtIbid == <<"i","b","i","d",".">>

TxtJones == <<"J","o","n","e","s",","," ","W","a","r">>

TxtSmith == <<"S","m","i","t","h",","," ","O","t","h","e","r">>

TxtA1 == <<"P","a","p","e","r"," ","o","n","e">>

TxtA2 == <<"P","a","p","e","r"," ","t","w","o">>

TxtA3 == <<"P","a","p","e","r"," ","1">>

TxtAnon == <<"A","n","o","n",".">>

TxtUrl == <<"h","t","t","p",":","/","/","a",".","b","/">>

UrlAB == <<"h","t","t","p",":","/","/","a",".","b">>

UrlABVariant == <<"H","T","T","P",":","/","/","A",".","b","/">>

UrlCD == <<"h","t","t","p",":","/","/","c",".","d">>

Doi1 == <<"1","0",".","1","/","a">>

Doi1Variant == <<"h","t","t","p","s",":","/","/","d","o","i",".","o","r","g","/","1","0",".","1","/","A">>

Doi2 == <<"1","0",".","2","/","b">>

MJones == Meta(EmptyStr, EmptyStr, EmptyStr, EmptyStr, <<"W","a","r">>, << <<"J","o","n","e","s">> >>)
MSmith == Meta(EmptyStr, EmptyStr, EmptyStr, EmptyStr, <<"O","t","h","e","r">>, << <<"S","m","i","t","h">> >>)
\* a paper with a DOI and a URL
MA1 == Meta(Doi1, UrlAB, EmptyStr, EmptyStr, <<"O","n","e">>, <<>>)
\* another paper (another DOI) at the same URL
MA2 == Meta(Doi2, UrlABVariant, EmptyStr, EmptyStr, <<"T","w","o">>, <<>>)
\* the first paper again, found under another URL
MA3 == Meta(Doi1Variant, UrlCD, EmptyStr, EmptyStr, <<"O","n","e">>, <<>>)
\* a record without any identifying field (a bare reporter citation)
MAnon == Meta(EmptyStr, EmptyStr, EmptyStr, <<"1"," ","U",".","S","."," ","2">>, EmptyStr, <<>>)

Full(tag) == <<"f","u","l","l"," ">> \o tag

Note(text, res) == [text |-> text, res |-> res]

NoteJones == Note(TxtJones, Found(MJones, Full(<<"J">>)))
NoteSmith == Note(TxtSmith, Found(MSmith, Full(<<"S">>)))
NoteA1 == Note(TxtA1, Found(MA1, Full(<<"1">>)))
NoteA2 == Note(TxtA2, Found(MA2, Full(<<"2">>)))
NoteA3 == Note(TxtA3, Found(MA3, Full(<<"3">>)))
NoteAnon == Note(TxtAnon, Found(MAnon, Full(<<"A">>)))
NoteIbid == Note(TxtIbid, NotCalled)
NoteLost == Note(TxtSmith, NotFound)
\* a bare link whose record carries no url field
NoteUrl == Note(TxtUrl, Found(MAnon, Full(<<"U">>)))
NoteRaised == Note(TxtAnon, Raised)
\* a record for which the formatter gives the empty string
NoteUnformatted == Note(TxtA1, Found(MA1, EmptyStr))

\* the notes of the long runs
Notes == {NoteIbid, NoteJones, NoteSmith, NoteA1, NoteA2, NoteA3, NoteAnon, NoteUrl, NoteLost}

\* the notes of the end-to-end scenario, and two papers sharing a URL
ScenarioNotes == {NoteJones, NoteIbid, NoteSmith, NoteA1, NoteA2}

\* the notes of the runs with failures: the three ways a note can fail
\* (an ibid first in the run, a lookup that gives nothing or raises) among
\* notes of two sources
FailureNotes == {NoteJones, NoteSmith, NoteIbid, NoteLost, NoteUnformatted, NoteRaised}

\* explicit-ibid spellings: head, separator, page with its final period
IbidHeads == { <<"i","b","i","d">>, <<"I","d",".">> }
IbidSeparators == { <<>>, <<","," ">>, <<" ","a","t"," ">>, <<",", " ","p","p","."," ">> }
IbidTails == { <<>>, <<"2","4","5">>, <<"7","ndash","9",".">> }

IbidSpellings ==
    { Strip(h \o sp \o tl) : h \in IbidHeads, sp \in IbidSeparators, tl \in IbidTails }
      \cup { <<"I","B","I","D","E","M">>,
              <<"I","b","i","d","e","m",".",","," ","p","."," ","4","5","-",".">> }

\* the notes of the short runs: every spelling (a spelling the pattern
\* rejects is looked up and not found), a lookup that raises, and three of
\* the notes of the long runs
WideNotes ==
    { Note(sp, NotFound) : sp \in IbidSpellings } \cup {NoteRaised, NoteJones, NoteA1, NoteUrl}

\* ------------------------------------------------------------------------
\* process_document: the endnote loop, then the footnote loop.  A note's id
\* is its position in its own list.
\* ------------------------------------------------------------------------
EndnoteStep(notes, max) ==
    /\ phase = "endnotes"
    /\ n_endnotes < MaxEndnotes
    /\ Len(results) < max
    /\ \E note \in notes :
          process_single_note(n_endnotes + 1, note.text, "endnote", note.res)
    /\ n_endnotes' = n_endnotes + 1
    /\ UNCHANGED <<phase, doc, race, route, call, session>>

FootnoteStep(notes, max) ==
    /\ phase = "footnotes"
    /\ Len(results) < max
    /\ \E note \in notes :
          process_single_note(Len(results) - n_endnotes + 1, note.text, "footnote", note.res)
    /\ UNCHANGED <<phase, n_endnotes, doc, race, route, call, session>>

EndnotesDone ==
    /\ phase = "endnotes"
    /\ phase' = "footnotes"
    /\ UNCHANGED <<history, results, lookups, written, n_endnotes, visited, doc, race, route, call, session>>

ProcessEndnote == EndnoteStep(Notes, MaxNotes)

ProcessFootnote == FootnoteStep(Notes, MaxNotes)

Next == ProcessEndnote \/ EndnotesDone \/ ProcessFootnote

Spec == Init /\ [][Next]_vars

\* short runs over the wide set of notes
ProcessEndnoteWide == EndnoteStep(WideNotes, MaxWideNotes)

ProcessFootnoteWide == FootnoteStep(WideNotes, MaxWideNotes)

NextWide == ProcessEndnoteWide \/ EndnotesDone \/ ProcessFootnoteWide

SpecWide == Init /\ [][NextWide]_vars

\* longer runs over the notes of the end-to-end scenario
ProcessEndnoteScenario == EndnoteStep(ScenarioNotes, MaxScenarioNotes)

ProcessFootnoteScenario == FootnoteStep(ScenarioNotes, MaxScenarioNotes)

NextScenario == ProcessEndnoteScenario \/ EndnotesDone \/ ProcessFootnoteScenario

SpecScenario == Init /\ [][NextScenario]_vars

\* runs in which notes fail
ProcessEndnoteFailure == EndnoteStep(FailureNotes, MaxFailureNotes)

ProcessFootnoteFailure == FootnoteStep(FailureNotes, MaxFailureNotes)

NextFailure == ProcessEndnoteFailure \/ EndnotesDone \/ ProcessFootnoteFailure

SpecFailure == Init /\ [][NextFailure]_vars

\* ------------------------------------------------------------------------
\* WordDocumentProcessor.get_endnotes / get_footnotes: the notes of a part
\* (word/endnotes.xml, word/footnotes.xml), a list of w:endnote / w:footnote
\* elements [id, text], in the order of the part; the elements with an id
\* below 1 (separators) or without text are left out.
\* ------------------------------------------------------------------------
ExtractedNote(el) == [id |-> el.id, text |-> Strip(el.text)]

RECURSIVE get_endnotes(_)
get_endnotes(part) ==
    IF part = <<>> THEN <<>>
    ELSE (IF part[1].id < 1 \/ Strip(part[1].text) = EmptyStr
          THEN <<>>
          ELSE <<ExtractedNote(part[1])>>) \o get_endnotes(Tail(part))

RECURSIVE get_footnotes(_)
get_footnotes(part) ==
    IF part = <<>> THEN <<>>
    ELSE (IF part[1].id < 1 \/ Strip(part[1].text) = EmptyStr
          THEN <<>>
          ELSE <<ExtractedNote(part[1])>>) \o get_footnotes(Tail(part))

\* the documents read: parts of at most MaxPartNotes elements with distinct
\* ids, a citation or white space as text
TxtBlank == <<" ">>

NoteIds == (0 - 1)..MaxNoteId

Elements == [id : NoteIds, text : {TxtJones, TxtBlank}]

Parts ==
    { part \in UNION { [1..n -> Elements] : n \in 0..MaxPartNotes } :
        \A i, j \in 1..Len(part) : i # j => part[i].id # part[j].id }

Docs == [endnotes : Parts, footnotes : Parts]

InitDoc ==
    /\ InitRun
    /\ doc \in Docs
    /\ race = NoRace
    /\ route = NoRoute
    /\ call = NoCall
    /\ session = NoSession

\* for note in endnotes: result = process_single_note(note, 'endnote')
ProcessEndnoteDoc ==
    /\ phase = "endnotes"
    /\ n_endnotes < Len(get_endnotes(doc.endnotes))
    /\ LET note == get_endnotes(doc.endnotes)[n_endnotes + 1]
       IN  \E n \in Notes :
              /\ n.text = note.text
              /\ process_single_note(note.id, note.text, "endnote", n.res)
    /\ n_endnotes' = n_endnotes + 1
    /\ UNCHANGED <<phase, doc, race, route, call, session>>

EndnotesDoneDoc ==
    /\ phase = "endnotes"
    /\ n_endnotes = Len(get_endnotes(doc.endnotes))
    /\ phase' = "footnotes"
    /\ UNCHANGED <<history, results, lookups, written, n_endnotes, visited, doc, race, route, call, session>>

\* for note in footnotes: result = process_single_note(note, 'footnote')
ProcessFootnoteDoc ==
    /\ phase = "footnotes"
    /\ Len(results) - n_endnotes < Len(get_footnotes(doc.footnotes))
    /\ LET note == get_footnotes(doc.footnotes)[Len(results) - n_endnotes + 1]
       IN  \E n \in Notes :
              /\ n.text = note.text
              /\ process_single_note(note.id, note.text, "footnote", n.res)
    /\ UNCHANGED <<phase, n_endnotes, doc, race, route, call, session>>

\* return doc_buffer.read(), results
ReturnResults ==
    /\ phase = "footnotes"
    /\ Len(results) - n_endnotes = Len(get_footnotes(doc.footnotes))
    /\ phase' = "done"
    /\ UNCHANGED <<history, results, lookups, written, n_endnotes, visited, doc, race, route, call, session>>

NextDoc == ProcessEndnoteDoc \/ EndnotesDoneDoc \/ ProcessFootnoteDoc \/ ReturnResults

SpecDoc == InitDoc /\ [][NextDoc]_vars

\* ------------------------------------------------------------------------
\* models.CitationMetadata.has_minimum_data: a BOOK needs a title, a LEGAL
\* record a case name or a citation; the other types are taken to need a
\* title.  A typed record is a record of Meta with its citation_type.
\* ------------------------------------------------------------------------
TypedMeta(citation_type, m) == [citation_type |-> citation_type] @@ m

has_minimum_data(m) ==
    IF m.citation_type = "LEGAL"
    THEN m.case_name # EmptyStr \/ m.citation # EmptyStr
    ELSE m.title # EmptyStr

\* ------------------------------------------------------------------------
\* The engine race: router._search_engines_parallel (called by
\* router._route_journal with three engines) and the race inside
\* unified_router._route_journal (four engines).  Every engine call runs
\* in its own worker; an engine answers after its delay with a record,
\* with None, or by raising.  The clock counts seconds; the steps of the
\* function itself take no time.
\* ------------------------------------------------------------------------
PARALLEL_TIMEOUT == 12

RaceFns == {"router", "unified"}

Engines(fn) ==
    IF fn = "router"
    THEN {"Crossref", "OpenAlex", "Semantic Scholar"}
    ELSE {"Crossref", "OpenAlex", "Semantic Scholar", "PubMed"}

\* what an engine call gives
GivesRecord(r) == [kind |-> "record", record |-> r]
GivesNone == [kind |-> "none"]
EngineRaises == [kind |-> "raises"]

PaperWithDoi == TypedMeta("JOURNAL", MA1)
PaperWithoutDoi == TypedMeta("JOURNAL", MJones)
\* a record that fails has_minimum_data: no title
PaperLacking == TypedMeta("JOURNAL", MAnon)

EngineAnswers ==
    {GivesRecord(PaperWithDoi), GivesRecord(PaperWithoutDoi), GivesRecord(PaperLacking),
     GivesNone, EngineRaises}

\* an engine answers within the timeout (1, 3, 10) or after it (MaxDelay)
Delays == {1, 3, 10, MaxDelay}

Plans(fn) == [Engines(fn) -> [delay : Delays, answer : EngineAnswers]]

\* result and result.has_minimum_data()
Qualifies(answer) == answer.kind = "record" /\ has_minimum_data(answer.record)

\* how the function leaves its with-block (at left_at), and what its caller
\* gets (at ret_at)
Return(value) == [kind |-> "return", value |-> value]
RaiseTimeout == [kind |-> "raise"]
FallThrough == [kind |-> "fallthrough"]
Pending == [kind |-> "pending"]

\* with ThreadPoolExecutor(...) as executor: every engine call is submitted
StartRace(fn, plan) ==
    [fn |-> fn, plan |-> plan, clock |-> 0, seen |-> {}, results |-> <<>>,
     pc |-> "as_completed", leaving |-> Pending, left_at |-> 0,
     ret |-> Pending, ret_at |-> 0]

InitRace ==
    /\ InitRun
    /\ doc = NoDoc
    /\ \E fn \in RaceFns : \E plan \in Plans(fn) : race = StartRace(fn, plan)
    /\ route = NoRoute
    /\ call = NoCall
    /\ session = NoSession

\* the futures that are done
Completed == { e \in DOMAIN race.plan : race.plan[e].delay <= race.clock }

\* the futures as_completed has still to yield, and those it can yield now
Unseen == DOMAIN race.plan \ race.seen

Ready == Completed \ race.seen

\* router._search_engines_parallel: one turn of the as_completed loop
search_engines_parallel_Yield ==
    /\ race # NoRace /\ race.fn = "router" /\ race.pc = "as_completed"
    /\ \E e \in Ready :
          race' = IF Qualifies(race.plan[e].answer)
                  THEN [race EXCEPT !.seen = @ \cup {e}, !.pc = "exit",
                                    !.leaving = Return(race.plan[e].answer.record),
                                    !.left_at = race.clock]
                  ELSE [race EXCEPT !.seen = @ \cup {e}]
    /\ UNCHANGED <<runVars, route, call, session>>

\* the loop ends without a return: return None
search_engines_parallel_Exhausted ==
    /\ race # NoRace /\ race.fn = "router" /\ race.pc = "as_completed"
    /\ Unseen = {}
    /\ race' = [race EXCEPT !.pc = "exit", !.leaving = Return(NoMeta),
                             !.left_at = race.clock]
    /\ UNCHANGED <<runVars, route, call, session>>

\* except FuturesTimeout: the loop is left; return None
search_engines_parallel_Timeout ==
    /\ race # NoRace /\ race.fn = "router" /\ race.pc = "as_completed"
    /\ Ready = {} /\ Unseen # {}
    /\ race.clock >= PARALLEL_TIMEOUT
    /\ race' = [race EXCEPT !.pc = "exit", !.leaving = Return(NoMeta),
                             !.left_at = race.clock]
    /\ UNCHANGED <<runVars, route, call, session>>

\* unified_router._route_journal: one turn of the as_completed loop
route_journal_Yield ==
    /\ race # NoRace /\ race.fn = "unified" /\ race.pc = "as_completed"
    /\ \E e \in Ready :
          race' = IF Qualifies(race.plan[e].answer)
                  THEN [race EXCEPT !.seen = @ \cup {e},
                                    !.results = Append(@, [source_engine |-> e]
                                                            @@ race.plan[e].answer.record)]
                  ELSE [race EXCEPT !.seen = @ \cup {e}]
    /\ UNCHANGED <<runVars, route, call, session>>

\* the loop ends: the with-block is left normally
route_journal_Exhausted ==
    /\ race # NoRace /\ race.fn = "unified" /\ race.pc = "as_completed"
    /\ Unseen = {}
    /\ race' = [race EXCEPT !.pc = "exit", !.leaving = FallThrough,
                             !.left_at = race.clock]
    /\ UNCHANGED <<runVars, route, call, session>>

\* as_completed raises TimeoutError; nothing in _route_journal catches it
route_journal_Timeout ==
    /\ race # NoRace /\ race.fn = "unified" /\ race.pc = "as_completed"
    /\ Ready = {} /\ Unseen # {}
    /\ race.clock >= PARALLEL_TIMEOUT
    /\ race' = [race EXCEPT !.pc = "exit", !.leaving = RaiseTimeout,
                             !.left_at = race.clock]
    /\ UNCHANGED <<runVars, route, call, session>>

\* Return best result (prefer one with DOI)
BestResult(found) ==
    IF found = <<>> THEN NoMeta
    ELSE IF \E i \in 1..Len(found) : found[i].doi # EmptyStr
    THEN found[CHOOSE i \in 1..Len(found) :
                  /\ found[i].doi # EmptyStr
                  /\ \A j \in 1..(i - 1) : found[j].doi = EmptyStr]
    ELSE found[1]

\* leaving the with-block is executor.shutdown(wait=True): it lasts until
\* every submitted engine call is done; then the caller gets the value
\* returned or the exception
ExecutorShutdown ==
    /\ race # NoRace /\ race.pc = "exit"
    /\ Completed = DOMAIN race.plan
    /\ race' = [race EXCEPT
                  !.pc = "done",
                  !.ret = IF race.leaving = FallThrough
                          THEN Return(BestResult(race.results))
                          ELSE race.leaving,
                  !.ret_at = race.clock]
    /\ UNCHANGED <<runVars, route, call, session>>

\* time passes, up to the next engine answer or the timeout, while the
\* function waits in as_completed or in the shutdown
NextEvent ==
    LET delays == { race.plan[e].delay : e \in DOMAIN race.plan }
        events == IF race.pc = "as_completed" THEN delays \cup {PARALLEL_TIMEOUT} ELSE delays
        later == { t \in events : t > race.clock }
    IN  CHOOSE t \in later : \A u \in later : t <= u

Tick ==
    /\ race # NoRace
    /\ \/ race.pc = "as_completed" /\ Ready = {} /\ Unseen # {}
             /\ race.clock < PARALLEL_TIMEOUT
       \/ race.pc = "exit" /\ Completed # DOMAIN race.plan
    /\ race' = [race EXCEPT !.clock = NextEvent]
    /\ UNCHANGED <<runVars, route, call, session>>

NextRace ==
    \/ search_engines_parallel_Yield
    \/ search_engines_parallel_Exhausted
    \/ search_engines_parallel_Timeout
    \/ route_journal_Yield
    \/ route_journal_Exhausted
    \/ route_journal_Timeout
    \/ ExecutorShutdown
    \/ Tick

SpecRace == InitRace /\ [][NextRace]_vars

\* ------------------------------------------------------------------------
\* Routing with a direct identifier: router._route_journal (a DOI),
\* router._route_medical (a PMID), unified_router._route_journal (a famous
\* paper, a DOI) and superlegal.LegalSearchEngine.search (a UK neutral
\* citation, a famous case).  A query is described by the identifiers it
\* contains and by what each direct lookup gives; route.calls lists the
\* lookups and searches the function has started.
\* ------------------------------------------------------------------------
RouteFns == {"router._route_journal", "router._route_medical",
             "unified_router._route_journal", "LegalSearchEngine.search"}

\* the identifiers a function looks for, in the order it looks for them
Identifiers(fn) ==
    CASE fn = "router._route_journal" -> <<"doi">>
      [] fn = "router._route_medical" -> <<"pmid">>
      [] fn = "unified_router._route_journal" -> <<"famous", "doi">>
      [] fn = "LegalSearchEngine.search" -> <<"uk", "cached">>

\* the direct lookup made for an identifier
LookupCall(fn, id) ==
    CASE id = "doi" -> "Crossref.get_by_id"
      [] id = "pmid" -> "PubMed.get_by_id"
      [] id = "famous" -> "Crossref.get_by_id(famous)"
      [] id = "uk" -> "UKCitationParser.search"
      [] id = "cached" -> "FamousCasesCache.search"

\* the search a function falls back to
SearchCall(fn) ==
    IF fn = "LegalSearchEngine.search" THEN "CourtListener.search" ELSE "parallel search"

SearchCalls == { SearchCall(fn) : fn \in RouteFns }

\* unified_router._route_journal wraps its lookups in try / except Exception
CatchesLookupErrors(fn) == fn = "unified_router._route_journal"

\* the cache is consulted for every query; the other lookups only when the
\* query shows the identifier
AlwaysLooksUp(id) == id = "cached"

CaseRecord == TypedMeta("LEGAL", MAnon)

\* a parser and a cache raise nothing
LookupAnswers(id) ==
    IF id \in {"uk", "cached"}
    THEN {GivesRecord(CaseRecord), GivesNone}
    ELSE {GivesRecord(PaperWithDoi), GivesRecord(PaperLacking), GivesNone, EngineRaises}

IdSet(fn) == { Identifiers(fn)[i] : i \in 1..Len(Identifiers(fn)) }

\* a query: the identifiers it contains and what their lookups give (a case
\* name that is in the cache is an identifier whose lookup gives the record)
Queries(fn) ==
    { q \in [ids : SUBSET IdSet(fn),
             direct : [IdSet(fn) -> UNION { LookupAnswers(id) : id \in IdSet(fn) }]] :
        /\ \A id \in IdSet(fn) : q.direct[id] \in LookupAnswers(id)
        /\ \A id \in IdSet(fn) \ q.ids : q.direct[id] = GivesNone
        /\ "cached" \in q.ids => q.direct["cached"] # GivesNone }

RaiseLookup == [kind |-> "raise"]

StartRoute(fn, q) ==
    [fn |-> fn, query |-> q, stage |-> 1, calls |-> <<>>, pc |-> "lookups", ret |-> Pending]

InitRoute ==
    /\ InitRun
    /\ doc = NoDoc
    /\ race = NoRace
    /\ \E fn \in RouteFns : \E q \in Queries(fn) : route = StartRoute(fn, q)
    /\ call = NoCall
    /\ session = NoSession

\* the function started the search although a lookup gave a record
direct_lookup_searches_anyway(r, id) ==
    [r EXCEPT !.calls = Append(@, LookupCall(r.fn, id)), !.stage = @ + 1]

\* one lookup: result = engine.get_by_id(...); if result: return result
direct_lookup(r, id) ==
    LET answer == r.query.direct[id]
        called == [r EXCEPT !.calls = Append(@, LookupCall(r.fn, id))]
    IN  IF answer.kind = "record"
        THEN [called EXCEPT !.pc = "done", !.ret = Return(answer.record)]
        ELSE IF answer.kind = "raises" /\ ~CatchesLookupErrors(r.fn)
        THEN [called EXCEPT !.pc = "done", !.ret = RaiseLookup]
        ELSE [called EXCEPT !.stage = @ + 1]

\* the function is at its lookups, with an identifier still to look for
AtLookup(fn) ==
    /\ route # NoRoute /\ route.fn = fn /\ route.pc = "lookups"
    /\ route.stage <= Len(Identifiers(fn))

\* the function has gone through its lookups without returning
AtSearch(fn) ==
    /\ route # NoRoute /\ route.fn = fn /\ route.pc = "lookups"
    /\ route.stage > Len(Identifiers(fn))

\* if the query shows the identifier, its lookup; else the next statement
lookup_stage(r) ==
    LET id == Identifiers(r.fn)[r.stage]
    IN  IF id \in r.query.ids \/ AlwaysLooksUp(id)
        THEN direct_lookup(r, id)
        ELSE [r EXCEPT !.stage = @ + 1]

\* what the search can give its caller
SearchReturns(fn) ==
    IF fn = "LegalSearchEngine.search"
    THEN {Return(CaseRecord), Return(NoMeta)}
    ELSE IF fn = "unified_router._route_journal"
    THEN {Return(PaperWithDoi), Return(PaperWithoutDoi), Return(NoMeta), RaiseTimeout}
    ELSE {Return(PaperWithDoi), Return(PaperWithoutDoi), Return(NoMeta)}

\* the search is started and its value returned
search_stage(r, ret) ==
    [r EXCEPT !.calls = Append(@, SearchCall(r.fn)), !.pc = "done", !.ret = ret]

\* router._route_journal: doi_match, _crossref.get_by_id(doi)
router_route_journal_lookup ==
    /\ AtLookup("router._route_journal")
    /\ route' = lookup_stage(route)
    /\ UNCHANGED <<runVars, race, call, session>>

\* router._route_journal: return _search_engines_parallel(engines, query)
router_route_journal_search ==
    /\ AtSearch("router._route_journal")
    /\ \E ret \in SearchReturns(route.fn) : route' = search_stage(route, ret)
    /\ UNCHANGED <<runVars, race, call, session>>

\* router._route_medical: pmid_match, _pubmed.get_by_id(pmid)
router_route_medical_lookup ==
    /\ AtLookup("router._route_medical")
    /\ route' = lookup_stage(route)
    /\ UNCHANGED <<runVars, race, call, session>>

\* router._route_medical: return _search_engines_parallel(engines, query)
router_route_medical_search ==
    /\ AtSearch("router._route_medical")
    /\ \E ret \in SearchReturns(route.fn) : route' = search_stage(route, ret)
    /\ UNCHANGED <<runVars, race, call, session>>

\* unified_router._route_journal: the famous paper's DOI, then the query's
unified_route_journal_lookup ==
    /\ AtLookup("unified_router._route_journal")
    /\ route' = lookup_stage(route)
    /\ UNCHANGED <<runVars, race, call, session>>

\* unified_router._route_journal: the race over the four engines
unified_route_journal_search ==
    /\ AtSearch("unified_router._route_journal")
    /\ \E ret \in SearchReturns(route.fn) : route' = search_stage(route, ret)
    /\ UNCHANGED <<runVars, race, call, session>>

\* LegalSearchEngine.search: the UK parser, then the famous-cases cache
LegalSearchEngine_search_lookup ==
    /\ AtLookup("LegalSearchEngine.search")
    /\ route' = lookup_stage(route)
    /\ UNCHANGED <<runVars, race, call, session>>

\* LegalSearchEngine.search: return self.court_listener.search(query)
LegalSearchEngine_search_court_listener ==
    /\ AtSearch("LegalSearchEngine.search")
    /\ \E ret \in SearchReturns(route.fn) : route' = search_stage(route, ret)
    /\ UNCHANGED <<runVars, race, call, session>>

NextRoute ==
    \/ router_route_journal_lookup
    \/ router_route_journal_search
    \/ router_route_medical_lookup
    \/ router_route_medical_search
    \/ unified_route_journal_lookup
    \/ unified_route_journal_search
    \/ LegalSearchEngine_search_lookup
    \/ LegalSearchEngine_search_court_listener

SpecRoute == InitRoute /\ [][NextRoute]_vars

\* ------------------------------------------------------------------------
\* ChicagoFormatter.format for the records of the model (their journal,
\* volume, year, publisher, place and court fields are empty)
\* ------------------------------------------------------------------------
ensure_period(text) ==
    IF text = EmptyStr THEN EmptyStr
    ELSE LET stripped == SubSeq(text, 1, LastNonSpace(text))
         IN  IF stripped # EmptyStr /\ stripped[Len(stripped)] \in {".", "?", "!"}
             THEN stripped
             ELSE stripped \o <<".">>

RECURSIVE JoinSpace(_)
JoinSpace(parts) ==
    IF parts = <<>> THEN EmptyStr
    ELSE IF Len(parts) = 1 THEN parts[1]
    ELSE parts[1] \o <<" ">> \o JoinSpace(Tail(parts))

format_authors(authors) ==
    IF authors = <<>> THEN EmptyStr
    ELSE IF Len(authors) = 1 THEN authors[1]
    ELSE IF Len(authors) = 2 THEN authors[1] \o <<" ","a","n","d"," ">> \o authors[2]
    ELSE authors[1] \o <<" ","e","t"," ","a","l",".">>

Part(present, text) == IF present THEN <<text>> ELSE <<>>

Italic(text) == <<"<","i",">">> \o text \o <<"<","/","i",">">>

format_journal(m) ==
    ensure_period(JoinSpace(
        Part(m.authors # <<>>, format_authors(m.authors))
        \o Part(m.title # EmptyStr, <<"\"">> \o m.title \o <<",","\"">>)
        \o Part(m.doi # EmptyStr,
                <<"h","t","t","p","s",":","/","/","d","o","i",".","o","r","g","/">> \o m.doi)
        \o Part(m.doi = EmptyStr /\ m.url # EmptyStr, m.url)))

format_book(m) ==
    ensure_period(JoinSpace(
        Part(m.authors # <<>>, format_authors(m.authors) \o <<",">>)
        \o Part(m.title # EmptyStr, Italic(m.title))))

format_legal(m) ==
    ensure_period(JoinSpace(
        Part(m.case_name # EmptyStr, Italic(m.case_name) \o <<",">>)
        \o Part(m.citation # EmptyStr, m.citation)))

format(metadata) ==
    IF metadata.citation_type = "LEGAL" THEN format_legal(metadata)
    ELSE IF metadata.citation_type = "BOOK" THEN format_book(metadata)
    ELSE format_journal(metadata)

\* ------------------------------------------------------------------------
\* unified_router.route_citation (get_citation is its alias), as
\* process_document calls it for a note.  A query is described by its
\* type (what is_legal_citation / detect_type say) and by what the layer
\* below answers: books.extract_metadata a list of dicts,
\* superlegal.extract_metadata a dict or None, and for a journal query the
\* DOI lookup and the engines of the race in their order of completion.
\* ------------------------------------------------------------------------
BookDict(title, authors) == [title |-> title, authors |-> authors]

LegalDict(case_name, citation) == [case_name |-> case_name, citation |-> citation]

GivesList(items) == [kind |-> "list", items |-> items]

GivesDict(data) == [kind |-> "dict", data |-> data]

book_dict_to_metadata(data) ==
    TypedMeta("BOOK", Meta(EmptyStr, EmptyStr, EmptyStr, EmptyStr, data.title, data.authors))

legal_dict_to_metadata(data) ==
    TypedMeta("LEGAL", Meta(EmptyStr, EmptyStr, data.case_name, data.citation, EmptyStr, <<>>))

\* try: results = books.extract_metadata(query) ... except: return None
route_book(answer) ==
    IF answer.kind = "list" /\ Len(answer.items) > 0
    THEN Return(book_dict_to_metadata(answer.items[1]))
    ELSE Return(NoMeta)

route_legal(answer) ==
    IF answer.kind = "dict"
       /\ (answer.data.case_name # EmptyStr \/ answer.data.citation # EmptyStr)
    THEN Return(legal_dict_to_metadata(answer.data))
    ELSE Return(NoMeta)

\* the records the loop of the race collects from the engines that answered
RECURSIVE Collected(_)
Collected(answers) ==
    IF answers = <<>> THEN <<>>
    ELSE IF Qualifies(answers[1].answer)
    THEN <<[source_engine |-> answers[1].engine] @@ answers[1].answer.record>>
           \o Collected(Tail(answers))
    ELSE Collected(Tail(answers))

\* the DOI lookup (its exceptions are swallowed), then the race, which
\* raises when an engine is still pending at the timeout
route_journal(q) ==
    IF q.direct.kind = "record" THEN Return(q.direct.record)
    ELSE IF q.pending THEN RaiseTimeout
    ELSE Return(BestResult(Collected(q.answered)))

route_citation(q) ==
    LET routed == CASE q.type = "LEGAL" -> route_legal(q.answer)
                    [] q.type = "BOOK" -> route_book(q.answer)
                    [] q.type = "JOURNAL" -> route_journal(q)
    IN  IF routed.kind = "raise" THEN Raised
        ELSE IF routed.value # NoMeta THEN Found(routed.value, format(routed.value))
        ELSE NotFound

get_citation(q) == route_citation(q)

\* the queries of the runs
BookWar == BookDict(<<"W","a","r">>, << <<"J","o","n","e","s">> >>)

\* a volume without a title, as Google Books can list it
BookUntitled == BookDict(EmptyStr, << <<"J","o","n","e","s">> >>)

BookBare == BookDict(EmptyStr, <<>>)

BookQueries ==
    { [type |-> "BOOK", text |-> TxtJones, answer |-> a] :
        a \in { GivesList(<<>>), GivesList(<<BookWar>>), GivesList(<<BookUntitled>>),
                GivesList(<<BookBare>>), GivesList(<<BookUntitled, BookWar>>),
                EngineRaises } }

LegalQueries ==
    { [type |-> "LEGAL", text |-> TxtAnon, answer |-> a] :
        a \in { GivesNone, EngineRaises,
                GivesDict(LegalDict(EmptyStr, <<"1"," ","U",".","S","."," ","2">>)),
                GivesDict(LegalDict(EmptyStr, EmptyStr)) } }

Answered(engine, answer) == [engine |-> engine, answer |-> answer]

JournalQueries ==
    { [type |-> "JOURNAL", text |-> TxtA1, direct |-> d, pending |-> p, answered |-> a] :
        d \in { GivesNone, GivesRecord(PaperWithDoi) },
        p \in BOOLEAN,
        a \in { <<>>,
                <<Answered("Crossref", GivesRecord(PaperLacking)),
                  Answered("OpenAlex", GivesRecord(PaperWithoutDoi))>>,
                <<Answered("OpenAlex", GivesRecord(PaperWithoutDoi)),
                  Answered("Crossref", GivesRecord(PaperWithDoi))>> } }

GateQueries == BookQueries \cup LegalQueries \cup JournalQueries

GateNotes == { Note(q.text, get_citation(q)) : q \in GateQueries } \cup {NoteIbid}

ProcessEndnoteGate == EndnoteStep(GateNotes, MaxGateNotes)

ProcessFootnoteGate == FootnoteStep(GateNotes, MaxGateNotes)

NextGate == ProcessEndnoteGate \/ EndnotesDone \/ ProcessFootnoteGate

SpecGate == Init /\ [][NextGate]_vars

\* ------------------------------------------------------------------------
\* Vocabulary of the properties: note i of the run, its lookup and its result
\* ------------------------------------------------------------------------
NoteCount == Len(results)

\* the lookup of note i gave a record and a formatted citation
IsResolved(i) ==
    /\ lookups[i] # NotCalled
    /\ ~lookups[i].raised
    /\ lookups[i].metadata # NoMeta
    /\ lookups[i].formatted # EmptyStr

\* the source key of every record a lookup can give, computed once
Records == {MJones, MSmith, MA1, MA2, MA3, MAnon}

KeyTable == [m \in Records |-> generate_source_key(m)]

KeyOf(i) == KeyTable[lookups[i].metadata]

UrlOf(i) == CurrentUrl(results[i].original, lookups[i].metadata)

FormOf(i) == results[i].citation_form

\* the URL of note i is that of the record of an earlier note
UrlSeenBefore(i) ==
    \E e \in 1..(i - 1) :
        IsResolved(e) /\ urls_match(UrlOf(i), lookups[e].metadata.url)

\* the URL of note i is that of the record of an earlier note of another source
UrlOfOtherSourceBefore(i) ==
    \E e \in 1..(i - 1) :
        /\ IsResolved(e)
        /\ KeyOf(e) # KeyOf(i)
        /\ urls_match(UrlOf(i), lookups[e].metadata.url)

\* notes i..j all resolve to one source, with a key, not seen before note i
SameSourceRun(i, j) ==
    /\ \A m \in i..j : IsResolved(m) /\ KeyOf(m) = KeyOf(i)
    /\ KeyOf(i) # NoKey
    /\ \A e \in 1..(i - 1) : IsResolved(e) => KeyOf(e) # KeyOf(i)

\* a step of the run processes one note: the last one of results'
NoteStep == Len(results') = Len(results) + 1

NewResult == results'[Len(results')]

NewLookup == lookups'[Len(lookups')]

\* ------------------------------------------------------------------------
\* C1 as stated: in a run of notes that all resolve to one source, with a
\* key, not seen earlier, the first note is full and the others are ibid.
\* ------------------------------------------------------------------------
C1_HistoryMonotonicity ==
    \A i \in 1..NoteCount : \A j \in i..NoteCount :
        SameSourceRun(i, j) =>
            /\ FormOf(i) = "full"
            /\ \A m \in (i + 1)..j : FormOf(m) = "ibid"

\* C1 amended: the same, for runs whose first note does not carry the URL of
\* an earlier note's record (such a note is ibid by the URL-match path).
C1_HistoryMonotonicityNewUrl ==
    \A i \in 1..NoteCount : \A j \in i..NoteCount :
        (SameSourceRun(i, j) /\ ~UrlSeenBefore(i)) =>
            /\ FormOf(i) = "full"
            /\ \A m \in (i + 1)..j : FormOf(m) = "ibid"

\* a run of three notes of one new source after a note of another source
C1_Witness ==
    \E i \in 2..NoteCount :
        /\ i + 2 <= NoteCount
        /\ IsResolved(i - 1)
        /\ SameSourceRun(i, i + 2)
        /\ ~UrlSeenBefore(i)
        /\ FormOf(i) = "full" /\ FormOf(i + 1) = "ibid" /\ FormOf(i + 2) = "ibid"

\* ------------------------------------------------------------------------
\* C2 as stated: of three consecutive resolved notes A, B, C with keys
\* X, Y, X (X # Y, none null), C is short, whatever the other fields are.
\* ------------------------------------------------------------------------
NonAdjacentRepeat(c) ==
    /\ IsResolved(c - 2) /\ IsResolved(c - 1) /\ IsResolved(c)
    /\ KeyOf(c - 2) # NoKey /\ KeyOf(c - 1) # NoKey /\ KeyOf(c) # NoKey
    /\ KeyOf(c - 2) = KeyOf(c)
    /\ KeyOf(c - 1) # KeyOf(c)

C2_ShortFormNonAdjacency ==
    \A c \in 3..NoteCount : NonAdjacentRepeat(c) => FormOf(c) = "short"

\* C2 amended: C is short when none of A, B, C carries the URL of an earlier
\* note's record of another source.
C2_ShortFormNonAdjacencyOwnUrls ==
    \A c \in 3..NoteCount :
        (/\ NonAdjacentRepeat(c)
         /\ \A m \in (c - 2)..c : ~UrlOfOtherSourceBefore(m))
        => FormOf(c) = "short"

\* A, B, C as above where C, classified short, carries another URL than A
C2_Witness ==
    \E c \in 3..NoteCount :
        /\ NonAdjacentRepeat(c)
        /\ \A m \in (c - 2)..c : ~UrlOfOtherSourceBefore(m)
        /\ UrlOf(c) # UrlOf(c - 2)
        /\ FormOf(c) = "short"

\* ------------------------------------------------------------------------
\* C3 as stated: every successfully processed note, an ibid by any of the
\* three paths included, makes history.previous a new entry for that note
\* (with the note's own record on the URL-match and source-key paths).
\* ------------------------------------------------------------------------
C3_PreviousFollowsEveryNote ==
    [][ (NoteStep /\ NewResult.success) =>
            /\ history'.previous # NoEntry
            /\ history'.previous # history.previous
            /\ history'.previous.formatted = NewResult.formatted
            /\ (NewLookup # NotCalled =>
                    history'.previous.metadata = NewLookup.metadata) ]_vars

\* ------------------------------------------------------------------------
\* C4: a note classified ibid, by any path, leaves all_sources as it was.
\* ------------------------------------------------------------------------
C4_IbidLeavesAllSources ==
    [][ (NoteStep /\ NewResult.citation_form = "ibid") =>
            history'.all_sources = history.all_sources ]_vars

\* an ibid note (URL-match path) whose own source key is in no all_sources
\* entry, and an explicit ibid after it
C4_Witness ==
    \E i \in 1..NoteCount :
        /\ i < NoteCount
        /\ IsResolved(i) /\ results[i].success /\ FormOf(i) = "ibid"
        /\ KeyOf(i) # NoKey
        /\ KeyOf(i) \notin SourceKeys(history)
        /\ lookups[i + 1] = NotCalled /\ results[i + 1].success

\* ------------------------------------------------------------------------
\* C5: an entry of all_sources stays, under the same key, through every
\* step of the run; a short note changes previous only.
\* ------------------------------------------------------------------------
C5_FirstOccurrenceKept ==
    [][ /\ \A e \in history.all_sources : e \in history'.all_sources
        /\ (NoteStep /\ NewResult.citation_form = "short") =>
              /\ history'.all_sources = history.all_sources
              /\ history'.previous # history.previous
              /\ history'.previous.metadata = NewLookup.metadata ]_vars

\* the last note is short: previous is its entry while all_sources still
\* holds the older first occurrence under its key
C5_Witness ==
    /\ NoteCount >= 3
    /\ FormOf(NoteCount) = "short"
    /\ history.previous # NoEntry
    /\ history.previous.source_key = KeyOf(NoteCount)
    /\ \E e \in history.all_sources :
          /\ e.key = KeyOf(NoteCount)
          /\ e.entry.note_number < history.previous.note_number
          /\ e.entry.metadata # history.previous.metadata

\* ------------------------------------------------------------------------
\* C6: a record with a null source key is never short, and is ibid only by
\* the URL-match path; sources_match is false when either key is null; no
\* null key is stored in all_sources.
\* ------------------------------------------------------------------------
C6_NullKeyNeverMerges ==
    /\ \A i \in 1..NoteCount :
          (IsResolved(i) /\ KeyOf(i) = NoKey) =>
              /\ FormOf(i) # "short"
              /\ FormOf(i) = "ibid" => UrlSeenBefore(i)
              /\ \A j \in 1..NoteCount :
                    IsResolved(j) =>
                        /\ ~sources_match(lookups[i].metadata, lookups[j].metadata)
                        /\ ~sources_match(lookups[j].metadata, lookups[i].metadata)
    /\ \A e \in history.all_sources : e.key # NoKey

\* two notes with the same record of null key, a keyed note between them,
\* all three full
C6_Witness ==
    \E i \in 1..NoteCount :
        /\ i + 2 <= NoteCount
        /\ IsResolved(i) /\ IsResolved(i + 1) /\ IsResolved(i + 2)
        /\ KeyOf(i) = NoKey /\ KeyOf(i + 1) # NoKey
        /\ lookups[i + 2].metadata = lookups[i].metadata
        /\ FormOf(i) = "full" /\ FormOf(i + 2) = "full"

\* ------------------------------------------------------------------------
\* C7: an explicit ibid processed while previous is unset gives form ibid,
\* success false and an error, changes neither the history nor the
\* document, and the run goes on with the next note.
\* ------------------------------------------------------------------------
C7_IbidWithoutPredecessor ==
    [][ (NoteStep /\ is_ibid(NewResult.original) /\ history.previous = NoEntry) =>
            /\ NewResult.citation_form = "ibid"
            /\ NewResult.success = FALSE
            /\ NewResult.error # NoError
            /\ NewResult.metadata = NoMeta
            /\ history' = history
            /\ written' = written
            /\ phase' = phase ]_vars

\* a failed leading ibid followed by a note processed with success
C7_Witness ==
    /\ NoteCount >= 2
    /\ lookups[1] = NotCalled
    /\ FormOf(1) = "ibid" /\ ~results[1].success
    /\ results[2].success /\ FormOf(2) = "full"

\* ------------------------------------------------------------------------
\* The page an ibid note ends in, read off the text without the pattern
\* ------------------------------------------------------------------------
\* the note without its final period
WithoutFinalPeriod(text) ==
    IF Len(text) > 0 /\ text[Len(text)] = "." THEN SubSeq(text, 1, Len(text) - 1) ELSE text

\* the digits and dashes that end a text
TrailingDigits(text) ==
    LET k == CHOOSE k \in 0..Len(text) :
                /\ \A i \in (Len(text) - k + 1)..Len(text) : IsDigit(text[i]) \/ IsDash(text[i])
                /\ k < Len(text) => ~(IsDigit(text[Len(text) - k]) \/ IsDash(text[Len(text) - k]))
    IN  SubSeq(text, Len(text) - k + 1, Len(text))

TrailingPage(text) == TrailingDigits(WithoutFinalPeriod(text))

ExpectedIbidText(text) ==
    IF TrailingPage(text) = EmptyStr
    THEN <<"I","b","i","d",".">>
    ELSE <<"I","b","i","d",".",","," ">> \o TrailingPage(text) \o <<".">>

IdAt245 == <<"I","d","."," ","a","t"," ","2","4","5">>

\* ------------------------------------------------------------------------
\* C8: an explicit ibid processed while previous is set gives form ibid,
\* success, the previous record, and the text "Ibid." without a page or
\* "Ibid., <page>." with the page that ends the note; every spelling with
\* a page after "at", a comma or "pp." is such a note.
\* ------------------------------------------------------------------------
C8_ExplicitIbidOutcome ==
    [][ (/\ NoteStep
         /\ history.previous # NoEntry
         /\ \/ is_ibid(NewResult.original)
            \/ (NewResult.original \in IbidSpellings /\ TrailingPage(NewResult.original) # EmptyStr))
        => /\ NewResult.citation_form = "ibid"
           /\ NewResult.success
           /\ NewResult.metadata = history.previous.metadata
           /\ NewResult.formatted = ExpectedIbidText(NewResult.original)
           /\ NewResult.original = IdAt245 =>
                 NewResult.formatted = <<"I","b","i","d",".",","," ","2","4","5",".">> ]_vars

\* "Id. at 245" after a citation, rendered "Ibid., 245."
C8_Witness ==
    /\ NoteCount = 2
    /\ results[1].success
    /\ results[2].original = IdAt245
    /\ results[2].success
    /\ results[2].formatted = <<"I","b","i","d",".",","," ","2","4","5",".">>
    /\ results[2].metadata = lookups[1].metadata

\* ------------------------------------------------------------------------
\* C9: a resolved note whose record's URL equals, after normalization, the
\* URL of previous.metadata is ibid, whatever the source keys.
\* ------------------------------------------------------------------------
C9_UrlMatchFirst ==
    [][ (/\ NoteStep
         /\ NewLookup # NotCalled
         /\ ~NewLookup.raised /\ NewLookup.metadata # NoMeta /\ NewLookup.formatted # EmptyStr
         /\ history.previous # NoEntry
         /\ NewLookup.metadata.url # EmptyStr
         /\ history.previous.metadata.url # EmptyStr
         /\ normalize_url(NewLookup.metadata.url)
              = normalize_url(history.previous.metadata.url))
        => NewResult.citation_form = "ibid" /\ NewResult.success ]_vars

\* an ibid note whose source key differs from the previous entry's and whose
\* URL is written differently
C9_Witness ==
    \E i \in 2..NoteCount :
        /\ IsResolved(i) /\ FormOf(i) = "ibid"
        /\ history.previous # NoEntry
        /\ history.previous.note_number = 1
        /\ KeyOf(i) # NoKey
        /\ KeyOf(i) # history.previous.source_key
        /\ lookups[i].metadata.url # history.previous.metadata.url
        /\ urls_match(lookups[i].metadata.url, history.previous.metadata.url)

\* ------------------------------------------------------------------------
\* C10: a note that follows an explicit ibid and resolves to the source the
\* ibid refers to is ibid; the notes Jones, "ibid.", Jones, Smith, Jones
\* get the forms full, ibid, ibid, full, short.
\* ------------------------------------------------------------------------
C10_IbidKeepsAdjacency ==
    /\ \A i \in 2..NoteCount :
          (/\ lookups[i - 1] = NotCalled /\ results[i - 1].success
           /\ IsResolved(i)
           /\ KeyOf(i) # NoKey
           /\ KeyOf(i) = generate_source_key(results[i - 1].metadata))
          => FormOf(i) = "ibid"
    /\ (/\ NoteCount = 5
        /\ lookups = <<NoteJones.res, NotCalled, NoteJones.res, NoteSmith.res, NoteJones.res>>
        /\ [i \in 1..5 |-> results[i].original]
             = <<TxtJones, TxtIbid, TxtJones, TxtSmith, TxtJones>>)
       => [i \in 1..5 |-> FormOf(i)] = <<"full", "ibid", "ibid", "full", "short">>

\* the end-to-end scenario has run
C10_Witness ==
    /\ NoteCount = 5
    /\ lookups = <<NoteJones.res, NotCalled, NoteJones.res, NoteSmith.res, NoteJones.res>>
    /\ [i \in 1..5 |-> results[i].original]
         = <<TxtJones, TxtIbid, TxtJones, TxtSmith, TxtJones>>
    /\ [i \in 1..5 |-> FormOf(i)] = <<"full", "ibid", "ibid", "full", "short">>

\* ------------------------------------------------------------------------
\* C11: a note that is not an explicit ibid and whose lookup gives no record,
\* or a record without formatted text, gets success false, its own text as
\* formatted, no metadata and the form full.
\* ------------------------------------------------------------------------
C11_ResolutionFailureOutcome ==
    [][ (/\ NoteStep
         /\ NewLookup # NotCalled
         /\ ~NewLookup.raised
         /\ (NewLookup.metadata = NoMeta \/ NewLookup.formatted = EmptyStr))
        => /\ NewResult.success = FALSE
           /\ NewResult.formatted = NewResult.original
           /\ NewResult.metadata = NoMeta
           /\ NewResult.citation_form = "full" ]_vars

\* a lookup that gave nothing and one that gave a record without text, both
\* reported as failed full citations carrying the note's text
C11_Witness ==
    \E i, j \in 1..NoteCount :
        /\ lookups[i] = NotFound
        /\ lookups[j] # NotCalled /\ ~lookups[j].raised
        /\ lookups[j].metadata # NoMeta /\ lookups[j].formatted = EmptyStr
        /\ \A m \in {i, j} :
              /\ ~results[m].success
              /\ results[m].formatted = results[m].original
              /\ results[m].formatted # EmptyStr
              /\ results[m].metadata = NoMeta
              /\ FormOf(m) = "full"

\* ------------------------------------------------------------------------
\* The run over a list of notes, from a given history (the two loops of
\* process_document), and the notes of the current run that did not fail
\* ------------------------------------------------------------------------
RECURSIVE RunFrom(_, _)
RunFrom(h, notes) ==
    IF notes = <<>> THEN [results |-> <<>>, history |-> h]
    ELSE LET out == NoteOutcome(h, notes[1].text, notes[1].res)
             rest == RunFrom(out.history, Tail(notes))
         IN  [results |-> <<out.result>> \o rest.results, history |-> rest.history]

RECURSIVE KeptNotes(_)
KeptNotes(i) ==
    IF i > NoteCount THEN <<>>
    ELSE (IF results[i].success THEN <<Note(results[i].original, lookups[i])>> ELSE <<>>)
           \o KeptNotes(i + 1)

RECURSIVE KeptResults(_)
KeptResults(i) ==
    IF i > NoteCount THEN <<>>
    ELSE (IF results[i].success THEN <<results[i]>> ELSE <<>>) \o KeptResults(i + 1)

\* ------------------------------------------------------------------------
\* C12: the notes that fail (no record found, ibid without a previous
\* citation, exception) leave previous and all_sources as they were and do
\* not end the loop: the history is the one of the run over the same notes
\* without the failed ones, every note that did not fail has the form and
\* the text it gets in that run, and every note drawn has been processed.
\* ------------------------------------------------------------------------
C12_FailureIsolation ==
    LET alone == RunFrom(CitationHistory, KeptNotes(1))
        here == KeptResults(1)
    IN  /\ alone.history.previous = history.previous
        /\ alone.history.all_sources = history.all_sources
        /\ Len(alone.results) = Len(here)
        /\ \A k \in 1..Len(here) :
              /\ alone.results[k].citation_form = here[k].citation_form
              /\ alone.results[k].formatted = here[k].formatted
              /\ alone.results[k].success
        /\ Len(visited) = NoteCount

\* an ibid that fails for want of a previous citation, then a failed lookup
\* between two notes of one source of which the second is ibid
C12_Witness ==
    /\ NoteCount >= 4
    /\ lookups[1] = NotCalled /\ ~results[1].success
    /\ \E i \in 2..(NoteCount - 1) :
          /\ lookups[i] = NotFound /\ ~results[i].success
          /\ IsResolved(i - 1) /\ results[i - 1].success
          /\ IsResolved(i + 1) /\ results[i + 1].success
          /\ KeyOf(i - 1) = KeyOf(i + 1)
          /\ FormOf(i + 1) = "ibid"

\* ------------------------------------------------------------------------
\* C13 as stated: the run gives one ProcessedCitation per extracted note;
\* the notes are processed one at a time, all endnotes before all
\* footnotes and, within each kind, in ascending numeric note id.
\* ------------------------------------------------------------------------
C13_TraversalOrder ==
    /\ Len(visited) = NoteCount
    /\ \A i, j \in 1..Len(visited) :
          i < j =>
            /\ ~(visited[i].note_type = "footnote" /\ visited[j].note_type = "endnote")
            /\ visited[i].note_type = visited[j].note_type
                  => visited[i].note_id < visited[j].note_id
    /\ phase = "done" =>
          /\ NoteCount = Len(get_endnotes(doc.endnotes)) + Len(get_footnotes(doc.footnotes))
          /\ \A el \in {doc.endnotes[k] : k \in 1..Len(doc.endnotes)} :
                (el.id >= 1 /\ Strip(el.text) # EmptyStr) =>
                    Cardinality({ i \in 1..Len(visited) :
                                    visited[i] = [note_type |-> "endnote", note_id |-> el.id] }) = 1
          /\ \A el \in {doc.footnotes[k] : k \in 1..Len(doc.footnotes)} :
                (el.id >= 1 /\ Strip(el.text) # EmptyStr) =>
                    Cardinality({ i \in 1..Len(visited) :
                                    visited[i] = [note_type |-> "footnote", note_id |-> el.id] }) = 1

\* ------------------------------------------------------------------------
\* C14: processing a note makes one write_endnote / write_footnote call, for
\* that note and with its formatted text, when the result has success true,
\* and none when it has success false.
\* ------------------------------------------------------------------------
C14_WriteOnlyOnSuccess ==
    [][ NoteStep =>
          LET note == visited'[Len(visited')]
          IN  /\ NewResult.success =>
                    written' = Append(written, [note_type |-> note.note_type,
                                                note_id |-> note.note_id,
                                                text |-> NewResult.formatted])
              /\ ~NewResult.success => written' = written ]_vars

\* a run with two written notes, one of them an ibid, and two failed notes
\* (an ibid without a previous citation, a lookup that gave nothing), not written
C14_Witness ==
    /\ NoteCount = 4
    /\ Len(written) = 2
    /\ \E i \in 1..NoteCount : results[i].success /\ FormOf(i) = "ibid"
    /\ \E i \in 1..NoteCount : ~results[i].success /\ FormOf(i) = "ibid"
    /\ \E i \in 1..NoteCount : ~results[i].success /\ lookups[i] = NotFound
    /\ \A w \in 1..Len(written) :
          \E i \in 1..NoteCount :
              /\ results[i].success
              /\ visited[i] = [note_type |-> written[w].note_type, note_id |-> written[w].note_id]
              /\ written[w].text = results[i].formatted

\* ------------------------------------------------------------------------
\* Vocabulary of the race properties
\* ------------------------------------------------------------------------
RaceDone == race # NoRace /\ race.pc = "done"

\* the engines that answer within the timeout with a qualifying record
QualifyingInTime ==
    { e \in DOMAIN race.plan :
        Qualifies(race.plan[e].answer) /\ race.plan[e].delay < PARALLEL_TIMEOUT }

\* the earliest answers among a set of engines
Earliest(engines) ==
    { e \in engines : \A f \in engines : race.plan[e].delay <= race.plan[f].delay }

\* the value the caller got is the record r (whatever engine name was set on it)
ReturnedRecord(r) ==
    /\ race.ret.kind = "return"
    /\ race.ret.value # NoMeta
    /\ \A f \in DOMAIN r : race.ret.value[f] = r[f]

\* ------------------------------------------------------------------------
\* C15 as stated: the caller of the race gets the result at the time of the
\* first qualifying answer, without waiting for the slower engines; with
\* engines answering after 1 s (a qualifying record), 3 s and 10 s and the
\* timeout of 12 s, the caller has the 1 s engine's record before the 3 s
\* and 10 s engines are done.
\* ------------------------------------------------------------------------
C15_RaceTermination ==
    /\ (RaceDone /\ QualifyingInTime # {}) =>
          /\ race.ret.kind = "return"
          /\ \E e \in Earliest(QualifyingInTime) : race.ret_at = race.plan[e].delay
    /\ (/\ RaceDone
        /\ { race.plan[e].delay : e \in DOMAIN race.plan } = {1, 3, 10}
        /\ \E e \in DOMAIN race.plan :
               /\ race.plan[e].delay = 1 /\ Qualifies(race.plan[e].answer)
               /\ \A f \in DOMAIN race.plan \ {e} : race.plan[f].delay > 1)
       => /\ race.ret_at < 3
          /\ \E e \in DOMAIN race.plan :
                race.plan[e].delay = 1 /\ ReturnedRecord(race.plan[e].answer.record)

\* ------------------------------------------------------------------------
\* C16 as stated: when the timeout passes with an engine still pending and
\* no qualifying answer obtained, the race returns None to its caller and
\* raises nothing (every engine call is submitted once, at the start).
\* ------------------------------------------------------------------------
C16_TimeoutYieldsNone ==
    (/\ RaceDone
     /\ \E e \in DOMAIN race.plan : race.plan[e].delay > PARALLEL_TIMEOUT
     /\ QualifyingInTime = {})
    => race.ret = Return(NoMeta)

\* ------------------------------------------------------------------------
\* C17 as stated: when an engine raises or gives a record that fails
\* has_minimum_data and another engine gives a qualifying record within the
\* timeout, the race is not aborted and returns a qualifying record.
\* ------------------------------------------------------------------------
C17_EngineFailureIsolation ==
    (/\ RaceDone
     /\ \E e \in DOMAIN race.plan :
           /\ \/ race.plan[e].answer = EngineRaises
              \/ (race.plan[e].answer.kind = "record" /\ ~Qualifies(race.plan[e].answer))
           /\ QualifyingInTime \ {e} # {})
    => /\ race.ret.kind = "return"
       /\ race.ret.value # NoMeta
       /\ has_minimum_data(race.ret.value)
       /\ \E e \in QualifyingInTime : ReturnedRecord(race.plan[e].answer.record)

\* ------------------------------------------------------------------------
\* C18 as stated: when several engines have given qualifying records by the
\* time the race is settled, the race returns a record with a DOI if one
\* of them has one, and else the record of the first of them to answer.
\* ------------------------------------------------------------------------
AnsweredBeforeSettled ==
    { e \in DOMAIN race.plan :
        Qualifies(race.plan[e].answer) /\ race.plan[e].delay <= race.left_at }

C18_DoiTieBreak ==
    (RaceDone /\ Cardinality(AnsweredBeforeSettled) >= 2)
    => /\ race.ret.kind = "return"
       /\ race.ret.value # NoMeta
       /\ IF \E e \in AnsweredBeforeSettled : race.plan[e].answer.record.doi # EmptyStr
          THEN race.ret.value.doi # EmptyStr
          ELSE \E e \in Earliest(AnsweredBeforeSettled) :
                  ReturnedRecord(race.plan[e].answer.record)

\* ------------------------------------------------------------------------
\* C19: when the query contains an identifier (a DOI in the journal
\* routing, a PMID in the medical routing, a famous case in the legal
\* search), its direct lookup is made once and before any search is
\* started, and when the lookup gives a record the function returns that
\* record without starting the parallel search or the CourtListener
\* request.
\* ------------------------------------------------------------------------
LookupMade(id) ==
    \E j \in 1..Len(route.calls) : route.calls[j] = LookupCall(route.fn, id)

SearchStarted ==
    \E i \in 1..Len(route.calls) : route.calls[i] \in SearchCalls

C20_MinimumDataGate ==
    /\ \A i \in 1..Len(lookups) :
          (lookups[i] # NotCalled /\ lookups[i].metadata # NoMeta)
          => has_minimum_data(lookups[i].metadata)
    /\ \A i \in 1..Len(results) :
          results[i].metadata # NoMeta => has_minimum_data(results[i].metadata)
    /\ history.previous # NoEntry => has_minimum_data(history.previous.metadata)
    /\ \A e \in history.all_sources : has_minimum_data(e.entry.metadata)

\* ------------------------------------------------------------------------
\* C28 as stated: when an engine answers with a qualifying record before
\* the timeout and another engine is still pending when the timeout
\* passes, the caller of the race gets a qualifying record.
\* ------------------------------------------------------------------------
PendingAtTimeout ==
    { e \in DOMAIN race.plan : race.plan[e].delay > PARALLEL_TIMEOUT }

C28_NoResultLostAtTimeout ==
    (RaceDone /\ QualifyingInTime # {} /\ PendingAtTimeout # {})
    => \E e \in QualifyingInTime : ReturnedRecord(race.plan[e].answer.record)

\* ------------------------------------------------------------------------
\* C29: among the resolved notes of a run that have one source key (not
\* null), at most one is given in full, and a note given in short form
\* follows a note of its source key that was given in full.
\* ------------------------------------------------------------------------
IsFullOf(i, key) ==
    IsResolved(i) /\ results[i].success /\ FormOf(i) = "full" /\ KeyOf(i) = key

C29_OneFullPerSource ==
    /\ \A i, j \in 1..NoteCount :
          (IsResolved(i) /\ KeyOf(i) # NoKey /\ IsFullOf(i, KeyOf(i)) /\ IsFullOf(j, KeyOf(i)))
          => i = j
    /\ \A j \in 1..NoteCount :
          FormOf(j) = "short"
          => /\ IsResolved(j)
             /\ KeyOf(j) # NoKey
             /\ \E i \in 1..(j - 1) : IsFullOf(i, KeyOf(j))

\* a source in full, another source in full, the first source in short form
C29_Witness ==
    /\ NoteCount >= 3
    /\ IsFullOf(1, KeyOf(1))
    /\ IsResolved(2) /\ FormOf(2) = "full" /\ KeyOf(2) # KeyOf(1)
    /\ IsResolved(3) /\ FormOf(3) = "short" /\ KeyOf(3) = KeyOf(1)

\* ------------------------------------------------------------------------
\* Calls of single functions: the arguments are chosen, then the function is
\* applied and its value recorded next to them.
\* ------------------------------------------------------------------------
Calling(fn, args) == [fn |-> fn, args |-> args]

Applied(c) == "value" \in DOMAIN c

Returning(c, value) == c @@ [value |-> value]

IsCall(fn) == call # NoCall /\ call.fn = fn

\* ------------------------------------------------------------------------
\* urls_match on pairs of URLs: a host written in either case, followed by
\* trailing slashes and a query string or by neither
\* ------------------------------------------------------------------------
UrlABUpper == <<"H","T","T","P",":","/","/","A",".","b">>

UrlHosts == {UrlAB, UrlABUpper, UrlCD}

UrlSlashes == {EmptyStr, <<"/">>, <<"/","/">>}

UrlQueries == {EmptyStr, <<"?","u","t","m","=","1">>}

Urls ==
    {EmptyStr} \cup { h \o sl \o q : h \in UrlHosts, sl \in UrlSlashes, q \in UrlQueries }

InitUrl ==
    /\ InitRun
    /\ doc = NoDoc
    /\ race = NoRace
    /\ route = NoRoute
    /\ \E url1 \in Urls : \E url2 \in Urls : call = Calling("urls_match", <<url1, url2>>)
    /\ session = NoSession

CallUrlsMatch ==
    /\ IsCall("urls_match")
    /\ ~Applied(call)
    /\ call' = Returning(call, urls_match(call.args[1], call.args[2]))
    /\ UNCHANGED <<runVars, race, route, session>>

NextUrl == CallUrlsMatch

SpecUrl == InitUrl /\ [][NextUrl]_vars

\* the address a URL names: its text in lower case up to the query string,
\* without the slashes that end it
AddressOf(url) == RStripSlash(BeforeQuery(Lower(Strip(url))))

EndsWithSlash(s) == Len(s) > 0 /\ s[Len(s)] = "/"

\* C23: normalize_url gives the URL in lower case, cut at the first '?' and
\* without a trailing slash; urls_match is true of two non-empty URLs that
\* differ only in letter case, trailing slashes or query string, and false
\* when either URL is empty.
C23_UrlsMatchUpToCaseSlashQuery ==
    (IsCall("urls_match") /\ Applied(call)) =>
        LET url1 == call.args[1]
            url2 == call.args[2]
        IN  /\ \A u \in {url1, url2} :
                  /\ normalize_url(u) = Lower(normalize_url(u))
                  /\ \A i \in 1..Len(normalize_url(u)) : normalize_url(u)[i] # "?"
                  /\ ~EndsWithSlash(normalize_url(u))
            /\ (url1 # EmptyStr /\ url2 # EmptyStr /\ AddressOf(url1) = AddressOf(url2))
                  => call.value = TRUE
            /\ (url1 = EmptyStr \/ url2 = EmptyStr) => call.value = FALSE

\* ------------------------------------------------------------------------
\* generate_source_key on pairs of records drawn field by field
\* ------------------------------------------------------------------------
\* a DOI field that holds a resolver prefix and nothing else
DoiBare == <<"d","o","i",":">>

NameRoe == <<"R","o","e">>

CiteUS == <<"1"," ","U",".","S","."," ","2">>

TitleWar == <<"W","a","r">>

AuthorJones == <<"J","o","n","e","s">>

AuthorSmith == <<"S","m","i","t","h">>

KeyRecords ==
    { Meta(doi, url, case_name, citation, title, authors) :
        doi \in {EmptyStr, Doi1, Doi1Variant, DoiBare},
        url \in {EmptyStr, UrlAB},
        case_name \in {EmptyStr, NameRoe},
        citation \in {EmptyStr, CiteUS},
        title \in {EmptyStr, TitleWar},
        authors \in {<<>>, <<AuthorJones>>, <<AuthorJones, AuthorSmith>>} }

InitKey ==
    /\ InitRun
    /\ doc = NoDoc
    /\ race = NoRace
    /\ route = NoRoute
    /\ \E m1 \in KeyRecords : \E m2 \in KeyRecords :
          call = Calling("generate_source_key", <<m1, m2>>)
    /\ session = NoSession

\* the key of each of the two records
CallSourceKey ==
    /\ IsCall("generate_source_key")
    /\ ~Applied(call)
    /\ call' = Returning(call, <<generate_source_key(call.args[1]),
                                 generate_source_key(call.args[2])>>)
    /\ UNCHANGED <<runVars, race, route, session>>

NextKey == CallSourceKey

SpecKey == InitKey /\ [][NextKey]_vars

FirstAuthor(m) == IF Len(m.authors) > 0 THEN m.authors[1] ELSE EmptyStr

\* the fields the claim calls identifying
IdentifyingFields(m) ==
    <<m.doi, m.url, m.case_name, m.citation, m.title, FirstAuthor(m)>>

KeyTag(key) ==
    IF key = NoKey THEN "none"
    ELSE CHOOSE t \in {"doi", "url", "legal", "title", "case"} :
            LET w == CASE t = "doi" -> <<"d","o","i",":">>
                       [] t = "url" -> <<"u","r","l",":">>
                       [] t = "legal" -> <<"l","e","g","a","l",":">>
                       [] t = "title" -> <<"t","i","t","l","e",":">>
                       [] t = "case" -> <<"c","a","s","e",":">>
            IN  StartsWith(key, w)

\* the first level whose fields are filled in, as the claim reads it
FirstFilledLevel(m) ==
    IF m.doi # EmptyStr THEN "doi"
    ELSE IF m.url # EmptyStr THEN "url"
    ELSE IF m.case_name # EmptyStr /\ m.citation # EmptyStr THEN "legal"
    ELSE IF m.title # EmptyStr THEN "title"
    ELSE IF m.case_name # EmptyStr THEN "case"
    ELSE "none"

\* the first level that yields a key: the DOI level needs a DOI that is
\* not empty once normalised
FirstUsableLevel(m) ==
    IF m.doi # EmptyStr /\ normalize_doi(m.doi) # EmptyStr THEN "doi"
    ELSE IF m.url # EmptyStr THEN "url"
    ELSE IF m.case_name # EmptyStr /\ m.citation # EmptyStr THEN "legal"
    ELSE IF m.title # EmptyStr THEN "title"
    ELSE IF m.case_name # EmptyStr THEN "case"
    ELSE "none"

KeyCallDone == IsCall("generate_source_key") /\ Applied(call)

\* C22: generate_source_key depends on the identifying fields only, returns
\* the key of the first level whose fields are non-empty (DOI, URL,
\* case_name+citation, title, case_name), returns null exactly when none of
\* the identifying fields is present, and gives two records with the same
\* DOI equal keys.
C22_SourceKeyPriority ==
    KeyCallDone =>
        LET m1 == call.args[1]
            m2 == call.args[2]
        IN  /\ IdentifyingFields(m1) = IdentifyingFields(m2)
                  => call.value[1] = call.value[2]
            /\ \A i \in 1..2 :
                  /\ KeyTag(call.value[i]) = FirstFilledLevel(call.args[i])
                  /\ call.value[i] = NoKey
                        <=> IdentifyingFields(call.args[i])
                              = <<EmptyStr, EmptyStr, EmptyStr, EmptyStr, EmptyStr, EmptyStr>>
            /\ (m1.doi # EmptyStr /\ m1.doi = m2.doi) => call.value[1] = call.value[2]

\* C22 (amended): the key depends on the identifying fields only; it is the
\* key of the first usable level, where the DOI level is usable when the
\* normalised DOI is non-empty; it is null exactly when no level is usable
\* (no usable DOI, no URL, no title and no case name); two records whose
\* DOIs normalise to the same non-empty text get the same "doi:" key
\* whatever their other fields are.
C22_SourceKeyUsableLevels ==
    KeyCallDone =>
        LET m1 == call.args[1]
            m2 == call.args[2]
        IN  /\ IdentifyingFields(m1) = IdentifyingFields(m2)
                  => call.value[1] = call.value[2]
            /\ \A i \in 1..2 :
                  /\ KeyTag(call.value[i]) = FirstUsableLevel(call.args[i])
                  /\ call.value[i] = NoKey <=> FirstUsableLevel(call.args[i]) = "none"
            /\ (normalize_doi(m1.doi) # EmptyStr /\ normalize_doi(m1.doi) = normalize_doi(m2.doi))
                  => /\ call.value[1] = call.value[2]
                     /\ call.value[1] = <<"d","o","i",":">> \o normalize_doi(m1.doi)

\* two records with one DOI written differently and different other
\* fields, the second with a URL as well
C22_Witness ==
    /\ KeyCallDone
    /\ call.args[1].doi = Doi1
    /\ call.args[2].doi = Doi1Variant
    /\ call.args[1].url = EmptyStr
    /\ call.args[2].url = UrlAB
    /\ call.args[1].title # call.args[2].title
    /\ call.value[1] = call.value[2]
    /\ call.value[1] # NoKey

\* ------------------------------------------------------------------------
\* /api/update (app.update_note) on a session stored by /api/process, with
\* document_processor.update_document_note and html_to_word_xml.
\* A processed document is its two note parts, each a list of elements
\* [id, content] in the order of the part; the content of a note is a
\* paragraph of runs.  The HTML sent has no tags and no entities.
\* ------------------------------------------------------------------------
RunOf(text) == [italic |-> FALSE, t |-> text]

html_to_word_xml(html) ==
    [p |-> IF html = EmptyStr THEN <<>> ELSE <<RunOf(html)>>]

\* re.subn over one part: every element with the id gets the new content
ReplaceInPart(part, note_id, word_xml) ==
    [i \in 1..Len(part) |->
        IF part[i].id = note_id THEN [part[i] EXCEPT !.content = word_xml] ELSE part[i]]

HasId(part, note_id) == \E i \in 1..Len(part) : part[i].id = note_id

\* the first part (endnotes, then footnotes) that has an element with the
\* id is rewritten; without one the document comes back as it was
update_document_note(doc_bytes, note_id, new_html) ==
    IF HasId(doc_bytes.endnotes, note_id)
    THEN [doc_bytes EXCEPT !.endnotes =
             ReplaceInPart(doc_bytes.endnotes, note_id, html_to_word_xml(new_html))]
    ELSE IF HasId(doc_bytes.footnotes, note_id)
    THEN [doc_bytes EXCEPT !.footnotes =
             ReplaceInPart(doc_bytes.footnotes, note_id, html_to_word_xml(new_html))]
    ELSE doc_bytes

\* the markers of a document in the order process_document numbers their
\* results: the endnotes of the part, then the footnotes, separators (id
\* below 1) left out
RECURSIVE MarkersOf(_, _)
MarkersOf(part, kind) ==
    IF part = <<>> THEN <<>>
    ELSE (IF part[1].id < 1 THEN <<>> ELSE <<[kind |-> kind, id |-> part[1].id]>>)
            \o MarkersOf(Tail(part), kind)

NumberedMarkers(d) == MarkersOf(d.endnotes, "endnote") \o MarkersOf(d.footnotes, "footnote")

\* process_doc: one result entry per note, numbered from 1
StoredResults(d) ==
    [i \in 1..Len(NumberedMarkers(d)) |->
        [id |-> i, formatted |-> TxtJones, success |-> FALSE, form |-> "full"]]

\* the parts of the documents: elements with ascending ids, each holding
\* the citation as processed
SessionParts ==
    { part \in UNION { [1..n -> [id : NoteIds, content : {html_to_word_xml(TxtJones)}]] :
                          n \in 0..MaxPartNotes } :
        \A i, j \in 1..Len(part) : i < j => part[i].id < part[j].id }

SessionDocs == [endnotes : SessionParts, footnotes : SessionParts]

RequestNoteIds == 0..(2 * MaxPartNotes + 1)

HtmlOf(r) == IF r = 1 THEN <<"N","e","w"," ","A">> ELSE <<"N","e","w"," ","B">>

NoResponse == [none |-> TRUE]

Request(note_id, html) ==
    [note_id |-> note_id, html |-> html, pc |-> "start",
     processed_doc |-> NoDoc, updated_doc |-> NoDoc, response |-> NoResponse]

Response(status, success) == [status |-> status, success |-> success]

\* sessions.create and the sessions.set calls of process_doc
StoredSession(exists, d, requests) ==
    [exists |-> exists,
     data |-> [processed_doc |-> d, results |-> StoredResults(d)],
     stored |-> [processed_doc |-> d, results |-> StoredResults(d)],
     requests |-> requests]

\* one request on a session that may have expired
InitUpdate ==
    /\ InitRun
    /\ doc = NoDoc
    /\ race = NoRace
    /\ route = NoRoute
    /\ call = NoCall
    /\ \E exists \in BOOLEAN : \E d \in SessionDocs : \E k \in RequestNoteIds :
          session = StoredSession(exists, d, <<Request(k, HtmlOf(1))>>)

\* two requests for different notes of a document with endnotes only
InitConcurrent ==
    /\ InitRun
    /\ doc = NoDoc
    /\ race = NoRace
    /\ route = NoRoute
    /\ call = NoCall
    /\ \E exists \in BOOLEAN : \E part \in SessionParts :
       \E k1 \in RequestNoteIds : \E k2 \in RequestNoteIds \ {k1} :
          session = StoredSession(exists, [endnotes |-> part, footnotes |-> <<>>],
                                  <<Request(k1, HtmlOf(1)), Request(k2, HtmlOf(2))>>)

RequestIds == IF session = NoSession THEN {} ELSE DOMAIN session.requests

At(r, pc) == session.requests[r].pc = pc

Respond(r, status, success) ==
    session' = [session EXCEPT !.requests[r].pc = "done",
                               !.requests[r].response = Response(status, success)]

\* if not session_id or not note_id: 400
RejectRequest ==
    \E r \in RequestIds :
        /\ At(r, "start")
        /\ session.requests[r].note_id = 0
        /\ Respond(r, 400, FALSE)
        /\ UNCHANGED <<runVars, race, route, call>>

\* session_data = sessions.get(session_id); if not session_data: 404
SessionNotFound ==
    \E r \in RequestIds :
        /\ At(r, "start")
        /\ session.requests[r].note_id # 0
        /\ ~session.exists
        /\ Respond(r, 404, FALSE)
        /\ UNCHANGED <<runVars, race, route, call>>

\* if not results or not processed_doc: 404
SessionIncomplete ==
    \E r \in RequestIds :
        /\ At(r, "start")
        /\ session.requests[r].note_id # 0
        /\ session.exists
        /\ session.data.results = <<>>
        /\ Respond(r, 404, FALSE)
        /\ UNCHANGED <<runVars, race, route, call>>

\* if note_idx < 0 or note_idx >= len(results): 404
NoteNotFound ==
    \E r \in RequestIds :
        /\ At(r, "start")
        /\ session.requests[r].note_id # 0
        /\ session.exists
        /\ session.data.results # <<>>
        /\ session.requests[r].note_id - 1 >= Len(session.data.results)
        /\ Respond(r, 404, FALSE)
        /\ UNCHANGED <<runVars, race, route, call>>

\* processed_doc = session_data.get('processed_doc'); results is the list
\* of the session itself
ReadSession ==
    \E r \in RequestIds :
        /\ At(r, "start")
        /\ session.requests[r].note_id # 0
        /\ session.exists
        /\ session.data.results # <<>>
        /\ session.requests[r].note_id - 1 < Len(session.data.results)
        /\ session' = [session EXCEPT !.requests[r].pc = "update",
                                      !.requests[r].processed_doc = session.data.processed_doc]
        /\ UNCHANGED <<runVars, race, route, call>>

\* updated_doc = update_document_note(processed_doc, note_id, new_html);
\* an error inside update_document_note gives the document back unchanged
UpdateDocument ==
    \E r \in RequestIds :
        /\ At(r, "update")
        /\ \E failed \in BOOLEAN :
              session' = [session EXCEPT
                 !.requests[r].pc = "set_doc",
                 !.requests[r].updated_doc =
                     IF failed THEN session.requests[r].processed_doc
                     ELSE update_document_note(session.requests[r].processed_doc,
                                               session.requests[r].note_id,
                                               session.requests[r].html)]
        /\ UNCHANGED <<runVars, race, route, call>>

\* sessions.set(session_id, 'processed_doc', updated_doc)
SetProcessedDoc ==
    \E r \in RequestIds :
        /\ At(r, "set_doc")
        /\ session' = [session EXCEPT !.requests[r].pc = "set_results",
                                      !.data.processed_doc = session.requests[r].updated_doc]
        /\ UNCHANGED <<runVars, race, route, call>>

\* results[note_idx]['formatted'] = new_html; results[note_idx]['success'] = True;
\* sessions.set(session_id, 'results', results); success response
SetResults ==
    \E r \in RequestIds :
        /\ At(r, "set_results")
        /\ session' = [session EXCEPT
              !.requests[r].pc = "done",
              !.requests[r].response = Response(200, TRUE),
              !.data.results[session.requests[r].note_id].formatted = session.requests[r].html,
              !.data.results[session.requests[r].note_id].success = TRUE]
        /\ UNCHANGED <<runVars, race, route, call>>

NextUpdate ==
    \/ RejectRequest
    \/ SessionNotFound
    \/ SessionIncomplete
    \/ NoteNotFound
    \/ ReadSession
    \/ UpdateDocument
    \/ SetProcessedDoc
    \/ SetResults

SpecUpdate == InitUpdate /\ [][NextUpdate]_vars

SpecConcurrent == InitConcurrent /\ [][NextUpdate]_vars

\* --- the requests of a session and the markers of its document
Answered200(r) ==
    /\ r \in RequestIds
    /\ At(r, "done")
    /\ session.requests[r].response.success

ContentOf(d, marker) ==
    LET part == IF marker.kind = "endnote" THEN d.endnotes ELSE d.footnotes
    IN  part[CHOOSE i \in 1..Len(part) : part[i].id = marker.id].content

\* the marker results[note_id - 1] was produced from
MarkerOfResult(r) == NumberedMarkers(session.stored.processed_doc)[session.requests[r].note_id]

AllMarkers == { NumberedMarkers(session.stored.processed_doc)[i] :
                  i \in 1..Len(NumberedMarkers(session.stored.processed_doc)) }

\* C24: /api/update for note_id k replaces in the stored processed document
\* the text of exactly the marker results[k-1] was produced from, and leaves
\* the text of every other marker and the formatted text and form of every
\* other result entry unchanged (stated for a request whose call of
\* update_document_note replaced a note).
C24_UpdateReplacesItsMarker ==
    (Answered200(1) /\ session.data.processed_doc # session.stored.processed_doc) =>
        /\ \A m \in AllMarkers :
              ContentOf(session.data.processed_doc, m) =
                 IF m = MarkerOfResult(1)
                 THEN html_to_word_xml(session.requests[1].html)
                 ELSE ContentOf(session.stored.processed_doc, m)
        /\ \A i \in 1..Len(session.data.results) :
              i # session.requests[1].note_id =>
                 /\ session.data.results[i].formatted = session.stored.results[i].formatted
                 /\ session.data.results[i].form = session.stored.results[i].form

\* C25: update_note answers success = true and marks results[note_id - 1]
\* successful only if the content of the note was replaced; when
\* update_document_note changes no note the request reports a failure and
\* the results of the session stay as they were.
C25_UnchangedDocumentIsFailure ==
    (1 \in RequestIds /\ At(1, "done")
       /\ session.data.processed_doc = session.stored.processed_doc) =>
        /\ ~session.requests[1].response.success
        /\ session.data.results = session.stored.results

\* C30: when two concurrent requests for different notes of a session both
\* answer success, the stored document holds both replacements (stated for
\* requests whose calls of update_document_note each replaced a note).
C30_ConcurrentUpdatesBothKept ==
    (/\ RequestIds = {1, 2}
     /\ \A r \in {1, 2} :
           /\ Answered200(r)
           /\ session.requests[r].updated_doc # session.requests[r].processed_doc) =>
        \A r \in {1, 2} :
           \E m \in AllMarkers :
              ContentOf(session.data.processed_doc, m) = html_to_word_xml(session.requests[r].html)

\* ------------------------------------------------------------------------
\* unified_router.route_citation, the branch of a query whose detected type
\* is UNKNOWN: AI classification when a classifier was imported, the router
\* of the classified type, then the fallback routers.  A router answers
\* with a record or nothing; _route_journal can also raise (its race is not
\* guarded against the timeout).
\* ------------------------------------------------------------------------
AI_AVAILABLE(r) == r.CLAUDE_AVAILABLE \/ r.GEMINI_AVAILABLE

\* the classifier classify_with_ai hands the query to ("none": it answers
\* UNKNOWN itself)
classify_with_ai(r) ==
    IF r.AI_ROUTER = "claude" /\ r.CLAUDE_AVAILABLE THEN "classify_with_claude"
    ELSE IF r.AI_ROUTER = "gemini" /\ r.GEMINI_AVAILABLE THEN "classify_with_gemini"
    ELSE IF r.CLAUDE_AVAILABLE THEN "classify_with_claude"
    ELSE IF r.GEMINI_AVAILABLE THEN "classify_with_gemini"
    ELSE "none"

AiTypes == {"UNKNOWN", "BOOK", "LEGAL", "JOURNAL", "MEDICAL", "NEWSPAPER", "GOVERNMENT", "INTERVIEW"}

\* the router route_citation calls for a type the classifier gave
router_of_ai_type(ai_type) ==
    CASE ai_type = "BOOK" -> "_route_book"
      [] ai_type = "LEGAL" -> "_route_legal"
      [] ai_type \in {"JOURNAL", "MEDICAL"} -> "_route_journal"
      [] ai_type \in {"NEWSPAPER", "GOVERNMENT"} -> "extract_by_type"
      [] OTHER -> "none"

RouterAnswers(fn) ==
    IF fn = "_route_journal" THEN {"record", "nothing", "raise"} ELSE {"record", "nothing"}

\* slip: the journal router is tried before the book router
fallback_routers_journal_first == <<"_route_journal", "_route_book">>

\* if not metadata: _route_book; if not metadata: _route_journal
fallback_routers == <<"_route_book", "_route_journal">>

Invoked(fn, stage, answer) == [fn |-> fn, stage |-> stage, answer |-> answer]

InitUnknown ==
    /\ InitRun
    /\ doc = NoDoc
    /\ race = NoRace
    /\ \E claude \in BOOLEAN : \E gemini \in BOOLEAN : \E ai_router \in {"claude", "gemini"} :
          route = [fn |-> "unified.route_citation", CLAUDE_AVAILABLE |-> claude,
                   GEMINI_AVAILABLE |-> gemini, AI_ROUTER |-> ai_router,
                   pc |-> "unknown", ai_type |-> "UNKNOWN", found |-> FALSE,
                   tried |-> 0, calls |-> <<>>]
    /\ call = NoCall
    /\ session = NoSession

InUnknownBranch == route # NoRoute /\ route.fn = "unified.route_citation"

\* if AI_AVAILABLE: (not taken)
SkipClassification ==
    /\ InUnknownBranch
    /\ route.pc = "unknown"
    /\ ~AI_AVAILABLE(route)
    /\ route' = [route EXCEPT !.pc = "fallback"]
    /\ UNCHANGED <<runVars, race, call, session>>

\* ai_type, ai_meta = classify_with_ai(query)
ClassifyWithAi ==
    /\ InUnknownBranch
    /\ route.pc = "unknown"
    /\ AI_AVAILABLE(route)
    /\ \E ai_type \in AiTypes :
          route' = [route EXCEPT
             !.ai_type = ai_type,
             !.calls = Append(route.calls, Invoked(classify_with_ai(route), "ai", ai_type)),
             !.pc = IF ai_type # "UNKNOWN" /\ router_of_ai_type(ai_type) # "none"
                    THEN "classified" ELSE "fallback"]
    /\ UNCHANGED <<runVars, race, call, session>>

\* if ai_type == BOOK: metadata = _route_book(query) elif ...
RouteAsClassified ==
    /\ InUnknownBranch
    /\ route.pc = "classified"
    /\ \E answer \in RouterAnswers(router_of_ai_type(route.ai_type)) :
          route' = [route EXCEPT
             !.calls = Append(route.calls,
                              Invoked(router_of_ai_type(route.ai_type), "ai", answer)),
             !.found = (answer = "record"),
             !.pc = IF answer = "raise" THEN "raised" ELSE "fallback"]
    /\ UNCHANGED <<runVars, race, call, session>>

\* if not metadata: metadata = <the next fallback router>(query)
TryFallbackRouter ==
    /\ InUnknownBranch
    /\ route.pc = "fallback"
    /\ route.tried < Len(fallback_routers)
    /\ ~route.found
    /\ \E answer \in RouterAnswers(fallback_routers[route.tried + 1]) :
          route' = [route EXCEPT
             !.calls = Append(route.calls,
                              Invoked(fallback_routers[route.tried + 1], "fallback", answer)),
             !.found = (answer = "record"),
             !.tried = route.tried + 1,
             !.pc = IF answer = "raise" THEN "raised" ELSE "fallback"]
    /\ UNCHANGED <<runVars, race, call, session>>

\* if metadata: return metadata, formatter.format(metadata); return None, ""
ReturnRouted ==
    /\ InUnknownBranch
    /\ route.pc = "fallback"
    /\ route.found \/ route.tried = Len(fallback_routers)
    /\ route' = [route EXCEPT !.pc = "returned"]
    /\ UNCHANGED <<runVars, race, call, session>>

NextUnknown ==
    \/ SkipClassification
    \/ ClassifyWithAi
    \/ RouteAsClassified
    \/ TryFallbackRouter
    \/ ReturnRouted

SpecUnknown == InitUnknown /\ [][NextUnknown]_vars

\* the routers invoked in the fallback, in order
FallbackCalls == SelectSeq(route.calls, LAMBDA c : c.stage = "fallback")

\* the AI stage left no record: no classifier, an answer of UNKNOWN, a type
\* without a router, or a router that found nothing
AiStageFoundNothing ==
    \A i \in 1..Len(route.calls) :
        route.calls[i].stage = "ai" => route.calls[i].answer \notin {"record", "raise"}

\* C21: for a query of detected type UNKNOWN, when no AI classifier is
\* available (or it answers UNKNOWN, or its route finds nothing) the book
\* router is invoked first and the journal router only if the book router
\* returned nothing; without a classifier none is called and the lack of
\* one raises no error (an error can only come out of the journal router).
C21_UnknownFallbackChain ==
    InUnknownBranch =>
        /\ ~AI_AVAILABLE(route) =>
              /\ \A i \in 1..Len(route.calls) : route.calls[i].stage = "fallback"
              /\ route.pc = "raised" =>
                    route.calls[Len(route.calls)].fn = "_route_journal"
        /\ \A i \in 1..Len(FallbackCalls) :
              FallbackCalls[i].fn = "_route_journal" =>
                 /\ i = 2
                 /\ FallbackCalls[1].fn = "_route_book"
                 /\ FallbackCalls[1].answer = "nothing"
        /\ (route.pc \in {"returned", "raised"} /\ AiStageFoundNothing) =>
              /\ Len(FallbackCalls) >= 1
              /\ FallbackCalls[1].fn = "_route_book"
              /\ FallbackCalls[1].answer = "nothing" =>
                    (Len(FallbackCalls) = 2 /\ FallbackCalls[2].fn = "_route_journal")

\* no classifier: the book router found nothing, the journal router a record
C21_Witness ==
    /\ InUnknownBranch
    /\ ~AI_AVAILABLE(route)
    /\ route.pc = "returned"
    /\ route.calls = <<Invoked("_route_book", "fallback", "nothing"),
                       Invoked("_route_journal", "fallback", "record")>>

\* ------------------------------------------------------------------------
\* get_multiple_citations of unified_router.py and of router.py.  A query
\* is what the code asks about it and what the engines hold for it:
\*   parsed     parse_existing_citation gives a complete citation
\*   doi        "none": no URL with a DOI; "found" / "missing": the answer
\*              of _crossref.get_by_id
\*   is_legal   superlegal.is_legal_citation
\*   type       detect_type
\*   ai_available, ai_type   AI_AVAILABLE and the answer of classify_with_ai
\*   legal, famous, semantic   whether _route_legal, find_famous_paper,
\*              _semantic.search give a candidate that is kept
\*   crossref, books   the number of candidates of _crossref.search_multiple
\*              and books.search_all_engines that are kept (enough data,
\*              no duplicate), whatever number was asked for
\* The value is the list of candidates by source and the calls made.
\* ------------------------------------------------------------------------
MaxLimit == 2

MaxFound == 2

Repeat(x, n) == [i \in 1..n |-> x]

\* results[:limit]
Truncated(st, limit) ==
    [st EXCEPT !.results = SubSeq(st.results, 1, IF Len(st.results) < limit
                                                  THEN Len(st.results) ELSE limit)]

Candidate(st, fn, sources) ==
    [results |-> st.results \o sources, calls |-> Append(st.calls, fn)]

\* metadatas = _crossref.search_multiple(...); every kept one is appended
search_crossref(st, q) ==
    Candidate(st, "crossref.search_multiple", Repeat("Crossref", q.crossref))

\* if len(results) < limit: ss_result = _semantic.search(query)
search_semantic(st, q, limit) ==
    IF Len(st.results) < limit
    THEN Candidate(st, "semantic.search",
                   IF q.semantic THEN <<"Semantic Scholar">> ELSE <<>>)
    ELSE st

\* for data in books.search_all_engines(query): break at limit results
search_books(st, q, limit) ==
    Candidate(st, "books.search_all_engines",
              Repeat("Google Books",
                     IF Len(st.results) >= limit THEN 0
                     ELSE IF q.books < limit - Len(st.results) THEN q.books
                     ELSE limit - Len(st.results)))

route_legal_candidate(st, q) ==
    Candidate(st, "_route_legal", IF q.legal THEN <<"Legal Cache">> ELSE <<>>)

\* metadata = _route_legal(query); ...; return results
legal_candidates(st, q, limit) == route_legal_candidate(st, q)

\* the branch for JOURNAL, MEDICAL and UNKNOWN
journal_candidates(st, q, limit) ==
    LET famous == Candidate(st, "find_famous_paper",
                            IF q.famous THEN <<"Famous Papers">> ELSE <<>>)
        scholar == search_semantic(search_crossref(famous, q), q, limit)
    IN  Truncated(IF Len(scholar.results) < limit
                  THEN search_books(scholar, q, limit) ELSE scholar, limit)

\* the branch for BOOK, and the fallback of the branch for UNKNOWN
book_candidates(st, q, limit) ==
    LET shelf == search_books(st, q, limit)
        cross == IF Len(shelf.results) < limit THEN search_crossref(shelf, q) ELSE shelf
    IN  Truncated(search_semantic(cross, q, limit), limit)

\* the second branch for UNKNOWN: classify_with_ai, then the engines of
\* the type it gave
ai_candidates(st, q, limit) ==
    LET asked == IF q.ai_available THEN Candidate(st, "classify_with_ai", <<>>) ELSE st
    IN  IF q.ai_available /\ q.ai_type = "BOOK"
        THEN Truncated(search_semantic(search_books(asked, q, limit), q, limit), limit)
        ELSE IF q.ai_available /\ q.ai_type = "LEGAL"
        THEN legal_candidates(asked, q, limit)
        ELSE IF q.ai_available /\ q.ai_type \in {"JOURNAL", "MEDICAL"}
        THEN LET scholar == search_semantic(search_crossref(asked, q), q, limit)
             IN  Truncated(IF Len(scholar.results) < limit
                           THEN search_books(scholar, q, limit) ELSE scholar, limit)
        ELSE book_candidates(asked, q, limit)

get_multiple_citations(q, limit) ==
    LET parsed == [results |-> IF q.parsed THEN <<"Original (Reformatted)">> ELSE <<>>,
                   calls |-> <<"parse_existing_citation", "detect_type">>]
        st == IF q.doi = "none" THEN parsed
              ELSE Candidate(parsed, "crossref.get_by_id",
                             IF q.doi = "found" THEN <<"Crossref (DOI)">> ELSE <<>>)
    IN  IF q.is_legal \/ q.type = "LEGAL" THEN legal_candidates(st, q, limit)
        ELSE IF q.type \in {"JOURNAL", "MEDICAL", "UNKNOWN"} THEN journal_candidates(st, q, limit)
        ELSE IF q.type = "BOOK" THEN book_candidates(st, q, limit)
        ELSE IF q.type = "UNKNOWN" THEN ai_candidates(st, q, limit)
        ELSE Truncated(st, limit)

\* router.py: one engine by detected type, then results[:limit]
router_get_multiple_citations(q, limit) ==
    LET st == [results |-> <<>>, calls |-> <<"detect_type">>]
    IN  Truncated(
           IF q.type = "LEGAL"
           THEN Candidate(st, "legal.search_multiple",
                          Repeat("Legal", IF q.legal THEN 1 ELSE 0))
           ELSE IF q.type \in {"JOURNAL", "MEDICAL"} THEN search_crossref(st, q)
           ELSE IF q.type = "BOOK"
           THEN Candidate(st, "google_books.search_multiple",
                          Repeat("Google Books", q.books))
           ELSE search_crossref(st, q),
           limit)

\* a URL is neither a citation that parses nor a case; a classifier that
\* was not imported gives no type
CandidateQueries ==
    { q \in [parsed : BOOLEAN, doi : {"none", "found", "missing"}, is_legal : BOOLEAN,
             type : {"LEGAL", "JOURNAL", "BOOK", "UNKNOWN", "NEWSPAPER"},
             ai_available : BOOLEAN, ai_type : {"UNKNOWN", "BOOK", "LEGAL", "JOURNAL"},
             legal : BOOLEAN, famous : BOOLEAN, semantic : BOOLEAN,
             crossref : 0..MaxFound, books : 0..MaxFound] :
        /\ q.doi # "none" => (~q.parsed /\ ~q.is_legal /\ q.type # "LEGAL")
        /\ ~q.ai_available => q.ai_type = "UNKNOWN" }

InitCandidates ==
    /\ InitRun
    /\ doc = NoDoc
    /\ race = NoRace
    /\ route = NoRoute
    /\ \E fn \in {"unified.get_multiple_citations", "router.get_multiple_citations"} :
       \E q \in CandidateQueries : \E limit \in 1..MaxLimit :
          call = Calling(fn, <<q, limit>>)
    /\ session = NoSession

CallUnifiedCandidates ==
    /\ IsCall("unified.get_multiple_citations")
    /\ ~Applied(call)
    /\ call' = Returning(call, get_multiple_citations(call.args[1], call.args[2]))
    /\ UNCHANGED <<runVars, race, route, session>>

CallRouterCandidates ==
    /\ IsCall("router.get_multiple_citations")
    /\ ~Applied(call)
    /\ call' = Returning(call, router_get_multiple_citations(call.args[1], call.args[2]))
    /\ UNCHANGED <<runVars, race, route, session>>

NextCandidates == CallUnifiedCandidates \/ CallRouterCandidates

SpecCandidates == InitCandidates /\ [][NextCandidates]_vars

CandidatesReturned ==
    /\ call # NoCall
    /\ call.fn \in {"unified.get_multiple_citations", "router.get_multiple_citations"}
    /\ Applied(call)

\* C26: get_multiple_citations of both routers returns at most `limit`
\* candidates for every query and every limit >= 1, on every path.
C26_AtMostLimitCandidates ==
    CandidatesReturned => Len(call.value.results) <= call.args[2]

CallIndex(fn) ==
    IF \E i \in 1..Len(call.value.calls) : call.value.calls[i] = fn
    THEN CHOOSE i \in 1..Len(call.value.calls) :
            call.value.calls[i] = fn /\ \A j \in 1..(i - 1) : call.value.calls[j] # fn
    ELSE 0

\* C27: in unified get_multiple_citations, when detection yields UNKNOWN
\* (and the query is no legal citation) and an AI classifier is available,
\* classify_with_ai is called before any search engine and its answer
\* steers the search: for BOOK no Crossref search is made, for JOURNAL
\* Crossref is searched first.
C27_AiConsultedForUnknown ==
    (/\ IsCall("unified.get_multiple_citations")
     /\ Applied(call)
     /\ call.args[1].type = "UNKNOWN"
     /\ ~call.args[1].is_legal
     /\ call.args[1].ai_available) =>
        /\ CallIndex("classify_with_ai") > 0
        /\ \A fn \in {"crossref.search_multiple", "semantic.search",
                      "books.search_all_engines", "find_famous_paper"} :
              CallIndex(fn) > 0 => CallIndex("classify_with_ai") < CallIndex(fn)
        /\ call.args[1].ai_type = "BOOK" => CallIndex("crossref.search_multiple") = 0

====
